---- MODULE Spec2Model ----
(***************************************************************************)
(* Local-first content cache of the rambam study tracker.                  *)
(*                                                                         *)
(* Modelled sources:                                                       *)
(*   services/sefaria.ts       (src/unnamed/part_007, lines 115-588)       *)
(*     processTextResponse, fetchHalakhotFromNetwork, fetchHalakhot,       *)
(*     fetchMultipleHalakhot, fetchSefariaCalendar, fetchCalendar          *)
(*   services/database.ts, services/connectivity.ts,                       *)
(*   services/studySchedule.ts are imported by sefaria.ts but are not part *)
(*   of the source tree at hand: isStale, getTextFromDB, saveTextToDB,     *)
(*   getCalendarFromDB, saveCalendarToDB, isReachable and                  *)
(*   resolveMitzvotSchedule follow the written specification (sections     *)
(*   4.1, 4.2, 4.3).                                                       *)
(*                                                                         *)
(* Data representation.                                                    *)
(*   - A JavaScript string is a record holding the sequence of its code    *)
(*     units; the empty string has none.  Str(lang, c, i) is the text of   *)
(*     passage i of chapter c in language lang.                            *)
(*   - An optional object field that is undefined is absent from the       *)
(*     record (HalakhaText.en, StoredText.languagesLoaded).                *)
(*   - null / undefined objects are the record NULL.                       *)
(*   - Time is counted in days.                                            *)
(***************************************************************************)
EXTENDS Integers, Sequences, FiniteSets, TLC

VARIABLES
    \* ---- the environment
    now,           \* the clock, in days
    ticks,         \* how often the clock has advanced
    online,        \* TRUE iff a reachability probe made now would succeed
    remote,        \* the remote text API: reference -> shape of its text
    \* ---- the Persistent Store, collection "texts" (keyed by reference)
    texts,         \* reference -> StoredText or NULL
    textWrites,    \* saveTextToDB calls in flight (fire and forget)
    \* ---- fetchHalakhot calls in progress
    calls,         \* slot -> call record
    \* ---- the fetchMultipleHalakhot call in progress
    merge,
    \* ---- the Persistent Store, collection "calendar" (keyed by path, date)
    calendar,      \* <<path, date>> -> StoredCalendar or NULL
    calWrites,     \* saveCalendarToDB calls in flight (fire and forget)
    \* ---- the fetchCalendar call in progress
    ccall,
    \* ---- processTextResponse applied to one pair of responses
    heData,        \* Hebrew response or NULL
    enData,        \* English response or NULL
    processed,     \* NULL before the call, {halakhot, chapterBreaks} after
    \* ---- the prefetchText call in progress
    pcall,
    \* ---- backgroundSync.ts (src/unnamed/part_005) and what it reads
    syncInProgress, \* the module's flag
    active,        \* runSync invocations past the guard and before finally
    run,           \* the position and locals of the runSync in progress
    visible,       \* document.visibilityState === "visible"
    navOnLine,     \* navigator.onLine
    meta,          \* the Store's meta collection, key lastDailyPrefetch
    studyPath,     \* useAppStore.getState().studyPath
    dayData,       \* useAppStore days written by setDayData
    prefetchDays,  \* history: the days on which runDailyPrefetch was entered
    \* ---- initializeOffline (src/unnamed/part_007 lines 48-113) and the app store
    initialized,   \* the module's flag
    boot,          \* the position and locals of the initializeOffline in progress
    done,          \* useAppStore done: the Completion Records
    bookmarks,     \* useAppStore bookmarks
    \* ---- migration.ts and the legacy storage
    legacy,        \* localStorage item "rambam-app-storage"
    mig,           \* the position and locals of the migration in progress
    \* ---- offlineStore.ts and the useOfflineStatus hook
    state,         \* "online", "system-offline" or "user-offline"
    lastOnline,    \* NULL or the time of the last setOnline
    mounted,       \* the hook's listeners are attached
    \* ---- PrefetchButton.tsx
    button,        \* the useState slots: state, progress, errorMessage
    weekPrefetches, \* handlePrefetch calls awaiting prefetchWeekAhead
    resetTimers,   \* setTimeout callbacks of line 52 not yet run
    clicks         \* history: the clicks handled so far

envVars == <<now, ticks, online, remote>>
textVars == <<texts, textWrites, calls, merge>>
calVars == <<calendar, calWrites, ccall>>
procVars == <<heData, enData, processed>>
buttonVars == <<button, weekPrefetches, resetTimers, clicks>>
prefVars == <<pcall, buttonVars>>
syncVars == <<syncInProgress, active, run, visible, navOnLine, meta, studyPath,
              dayData, prefetchDays>>
bootVars == <<initialized, boot, done, bookmarks, legacy, mig, state, lastOnline,
              mounted>>

vars == <<envVars, textVars, calVars, procVars, prefVars, syncVars, bootVars>>

-----------------------------------------------------------------------------
(* Bounds of the model *)

\* chapters in a spanning response
MaxChapters == 3
\* passages in one chapter (or in one flat response)
MaxChapterSize == 2

-----------------------------------------------------------------------------
(* Values *)

NULL == [kind |-> "null"]

EmptyStr == [chars |-> <<>>]

\* s.length
StrLen(s) == Len(s.chars)

\* the text of passage i of chapter c in language lang (never empty)
Str(lang, c, i) == [chars |-> <<lang, c, i>>]

\* JavaScript array access arr[n] (0-based): is there an element, and which
Has(arr, n) == (n + 1) \in DOMAIN arr
At(arr, n) == arr[n + 1]

-----------------------------------------------------------------------------
(* The remote text API's documented response shapes (spec section 6):      *)
(* a nested per-chapter passage list (isSpanning), a flat passage list, or *)
(* a single passage string.  text.type tells what Array.isArray and the    *)
(* element type tell in JavaScript.                                        *)

NestedText(lang, sizes) ==
    [type |-> "nested",
     val  |-> [c \in 1..Len(sizes) |-> [i \in 1..sizes[c] |-> Str(lang, c, i)]]]

ArrayText(lang, n) ==
    [type |-> "array", val |-> [i \in 1..n |-> Str(lang, 1, i)]]

StringText(lang) ==
    [type |-> "string", val |-> Str(lang, 1, 1)]

Response(text) ==
    [kind |-> "response",
     isSpanning |-> (text.type = "nested"),
     versions |-> << [text |-> text] >>]

\* sequences of chapter sizes of length 1..n
RECURSIVE SizeSeqs(_)
SizeSeqs(n) ==
    IF n = 0 THEN {}
    ELSE [1..n -> 0..MaxChapterSize] \cup SizeSeqs(n - 1)

\* A shape is what both language versions of one reference have in common
Shapes ==
    {[type |-> "nested", sizes |-> s] : s \in SizeSeqs(MaxChapters)}
    \cup {[type |-> "array", sizes |-> <<n>>] : n \in 0..MaxChapterSize}
    \cup {[type |-> "string", sizes |-> <<1>>]}

TextOf(lang, shape) ==
    CASE shape.type = "nested" -> NestedText(lang, shape.sizes)
      [] shape.type = "array"  -> ArrayText(lang, shape.sizes[1])
      [] OTHER                 -> StringText(lang)

ResponseOf(lang, shape) == Response(TextOf(lang, shape))

-----------------------------------------------------------------------------
(* processTextResponse, src/unnamed/part_007 lines 309-372 *)

\* heData?.versions[0]?.text
VersionText(data) ==
    IF data = NULL THEN NULL
    ELSE IF ~Has(data.versions, 0) THEN NULL
    ELSE At(data.versions, 0).text

\* chapters?.[chapterNum]?.[idx]
Nested2(text, chapterNum, idx) ==
    IF text = NULL THEN NULL
    ELSE IF ~Has(text.val, chapterNum) THEN NULL
    ELSE IF ~Has(At(text.val, chapterNum), idx) THEN NULL
    ELSE At(At(text.val, chapterNum), idx)

\* array?.[idx]
Nested1(text, idx) ==
    IF text = NULL THEN NULL
    ELSE IF ~Has(text.val, idx) THEN NULL
    ELSE At(text.val, idx)

\* { he: x ?? "", en: y, chapter, isFirstInChapter }
Halakha(heStr, enStr, chapter, first) ==
    IF enStr = NULL
    THEN [he |-> IF heStr = NULL THEN EmptyStr ELSE heStr,
          chapter |-> chapter, isFirstInChapter |-> first]
    ELSE [he |-> IF heStr = NULL THEN EmptyStr ELSE heStr,
          en |-> enStr,
          chapter |-> chapter, isFirstInChapter |-> first]

\* chapter.forEach((_, idx) => { halakhot.push(...); currentIndex++ })
RECURSIVE ChapterLoop(_, _, _, _, _, _)
ChapterLoop(chapter, heText, enText, chapterNum, idx, acc) ==
    IF idx >= Len(chapter) THEN acc
    ELSE ChapterLoop(chapter, heText, enText, chapterNum, idx + 1,
            [acc EXCEPT
               !.halakhot = Append(@, Halakha(Nested2(heText, chapterNum, idx),
                                              Nested2(enText, chapterNum, idx),
                                              chapterNum + 1, idx = 0)),
               !.currentIndex = @ + 1])

\* as PushChapterBreak, without the test for the first chapter
PushChapterBreakAlways(chapterNum, acc) ==
    [acc EXCEPT !.chapterBreaks = Append(@, acc.currentIndex)]

\* if (chapterNum > 0) chapterBreaks.push(currentIndex)
PushChapterBreak(chapterNum, acc) ==
    IF chapterNum > 0
    THEN [acc EXCEPT !.chapterBreaks = Append(@, acc.currentIndex)]
    ELSE acc

\* structChapters.forEach((chapter, chapterNum) => { ... })
RECURSIVE SpanningLoop(_, _, _, _, _)
SpanningLoop(structChapters, heText, enText, chapterNum, acc) ==
    IF chapterNum >= Len(structChapters) THEN acc
    ELSE SpanningLoop(structChapters, heText, enText, chapterNum + 1,
            ChapterLoop(structChapters[chapterNum + 1], heText, enText,
                        chapterNum, 0, PushChapterBreak(chapterNum, acc)))

\* structArray.forEach((_, idx) => halakhot.push(...))
RECURSIVE ArrayLoop(_, _, _, _, _)
ArrayLoop(structArray, heText, enText, idx, acc) ==
    IF idx >= Len(structArray) THEN acc
    ELSE ArrayLoop(structArray, heText, enText, idx + 1,
            [acc EXCEPT
               !.halakhot = Append(@, Halakha(Nested1(heText, idx),
                                              Nested1(enText, idx),
                                              1, idx = 0))])

processTextResponse(he, en) ==
    LET structuralData == IF he # NULL THEN he ELSE en
        heText == VersionText(he)
        enText == VersionText(en)
        structText == IF heText # NULL THEN heText ELSE enText
        empty == [halakhot |-> <<>>, chapterBreaks |-> <<>>, currentIndex |-> 0]
        out(acc) == [halakhot |-> acc.halakhot, chapterBreaks |-> acc.chapterBreaks]
    IN  IF structuralData = NULL THEN out(empty)
        ELSE IF structuralData.isSpanning
             THEN out(SpanningLoop(structText.val, heText, enText, 0, empty))
        ELSE IF VersionText(structuralData) # NULL
                /\ VersionText(structuralData).type = "array"
             THEN out(ArrayLoop(structText.val, heText, enText, 0, empty))
        ELSE out([empty EXCEPT
                   !.halakhot = << Halakha(IF heText = NULL THEN NULL ELSE heText.val,
                                           IF enText = NULL THEN NULL ELSE enText.val,
                                           1, TRUE) >>])

-----------------------------------------------------------------------------
(* processTextResponse on every pair of congruent responses *)

ProcInit ==
    /\ \E shape \in Shapes, heOk \in BOOLEAN, enOk \in BOOLEAN :
          /\ heData = IF heOk THEN ResponseOf("he", shape) ELSE NULL
          /\ enData = IF enOk THEN ResponseOf("en", shape) ELSE NULL
    /\ processed = NULL

Process ==
    /\ processed = NULL
    /\ processed' = processTextResponse(heData, enData)
    /\ UNCHANGED <<heData, enData, envVars, textVars, calVars, prefVars, syncVars,
                   bootVars>>

-----------------------------------------------------------------------------
(* The text fetcher: fetchHalakhot, src/unnamed/part_007 lines 431-476 *)

Refs == {"r1", "r2"}

\* references in one fetchMultipleHalakhot call
MaxRefs == 2
\* advances of the clock
MaxTicks == 1

TEXT_STALE_DAYS == 7

\* the clock advances in steps of one day more than the staleness window of
\* texts: an entry is fresh until the clock advances and stale afterwards
TickDays == TEXT_STALE_DAYS + 1

\* one slot for each fetchHalakhot call that can be in progress
Slots == 1..MaxRefs

\* database.ts isStale(fetchedAt, maxAgeDays): older than the window
isStale(fetchedAt, maxAgeDays) == now - fetchedAt > maxAgeDays

\* connectivity.ts isReachable(): probes now, never throws
isReachable == online

\* History kept with a call: hit, probes and requests record what the call
\* has done so far, heOk and enOk how its two language requests ended, retry
\* that the caller's previous call was for the same reference and failed in
\* both languages (failedRef remembers that reference between the calls)
IdleCall ==
    [pc |-> "idle", ref |-> "", owner |-> "", cached |-> NULL, hit |-> "",
     probes |-> 0, requests |-> 0, heOk |-> FALSE, enOk |-> FALSE,
     retry |-> FALSE, failedRef |-> "", result |-> NULL]

IdleMerge == [pc |-> "idle", refs |-> <<>>, parts |-> <<>>, result |-> NULL]

Failure(message) == [status |-> "error", error |-> message]

\* cached.halakhot.some((h) => h.he && h.he.length > 0)
hasHe(halakhot) ==
    \E k \in DOMAIN halakhot : StrLen(halakhot[k].he) > 0

\* cached.halakhot.some((h) => h.en && h.en.length > 0)
hasEn(halakhot) ==
    \E k \in DOMAIN halakhot :
        "en" \in DOMAIN halakhot[k] /\ StrLen(halakhot[k].en) > 0

\* { halakhot, chapterBreaks, languagesLoaded: cached.languagesLoaded ?? {...} }
CachedResult(cached) ==
    [status |-> "ok",
     halakhot |-> cached.halakhot,
     chapterBreaks |-> cached.chapterBreaks,
     languagesLoaded |->
        IF "languagesLoaded" \in DOMAIN cached
        THEN cached.languagesLoaded
        ELSE [he |-> hasHe(cached.halakhot), en |-> hasEn(cached.halakhot)]]

\* as NetworkResult with Promise.all in place of Promise.allSettled: one
\* rejected request rejects the whole fetch
NetworkResultAll(he, en) ==
    IF he = NULL \/ en = NULL
    THEN Failure("Both language fetches failed")
    ELSE LET p == processTextResponse(he, en)
         IN  [status |-> "ok",
              halakhot |-> p.halakhot,
              chapterBreaks |-> p.chapterBreaks,
              languagesLoaded |-> [he |-> he # NULL, en |-> en # NULL]]

\* as NetworkResult without the throw when both requests failed
NetworkResultNoThrow(he, en) ==
    LET p == processTextResponse(he, en)
    IN  [status |-> "ok",
         halakhot |-> p.halakhot,
         chapterBreaks |-> p.chapterBreaks,
         languagesLoaded |-> [he |-> he # NULL, en |-> en # NULL]]

\* fetchHalakhotFromNetwork once both requests have settled (lines 402-423)
NetworkResult(he, en) ==
    IF he = NULL /\ en = NULL
    THEN Failure("Both language fetches failed")
    ELSE LET p == processTextResponse(he, en)
         IN  [status |-> "ok",
              halakhot |-> p.halakhot,
              chapterBreaks |-> p.chapterBreaks,
              languagesLoaded |-> [he |-> he # NULL, en |-> en # NULL]]

\* database.ts saveTextToDB(ref, halakhot, chapterBreaks, languagesLoaded):
\* the record it puts, stamped when it is called
StoredText(ref, result) ==
    [ref |-> ref,
     halakhot |-> result.halakhot,
     chapterBreaks |-> result.chapterBreaks,
     languagesLoaded |-> result.languagesLoaded,
     fetchedAt |-> now]

\* an entry written before languagesLoaded existed (migration.ts line 89)
LegacyText(ref, shape) ==
    LET p == processTextResponse(ResponseOf("he", shape), ResponseOf("en", shape))
    IN  [ref |-> ref, halakhot |-> p.halakhot,
         chapterBreaks |-> p.chapterBreaks, fetchedAt |-> 0]

\* no call is in progress and no write is in flight
Quiet ==
    /\ merge.pc = "idle"
    /\ \A c \in Slots : calls[c].pc = "idle"
    /\ textWrites = {}

\* ---- fetchHalakhot, step by step (it suspends at every await)

\* the call begins: getTextFromDB(ref) is issued
BeginFetchHalakhot(r, owner) ==
    [IdleCall EXCEPT !.pc = "db", !.ref = r, !.owner = owner]

\* a caller other than fetchMultipleHalakhot calls fetchHalakhot(r)
StartFetchHalakhot(r) ==
    /\ Quiet
    /\ calls' = [calls EXCEPT ![1] = [BeginFetchHalakhot(r, "caller") EXCEPT
                                        !.retry = (calls[1].failedRef = r)]]
    /\ UNCHANGED <<texts, textWrites, merge, envVars, procVars, bootVars, prefVars, syncVars, calVars>>

\* a caller calls fetchHalakhot(r) whatever other call is in progress
StartOverlappingFetch(c, r) ==
    /\ calls[c].pc = "idle"
    /\ merge.pc = "idle"
    /\ calls' = [calls EXCEPT ![c] = [BeginFetchHalakhot(r, "caller") EXCEPT
                                        !.retry = (calls[c].failedRef = r)]]
    /\ UNCHANGED <<texts, textWrites, merge, envVars, procVars, bootVars, prefVars, syncVars, calVars>>

\* as AfterGetTextFromDB, without the early return of a fresh entry
AfterGetTextFromDBNoEarlyReturn(call, cached) ==
    [call EXCEPT !.pc = "probe", !.cached = cached,
                 !.hit = IF cached # NULL THEN "stale" ELSE "miss"]

\* as AfterGetTextFromDB, with an entry that lacks a language treated as
\* stale
AfterGetTextFromDBWantsBoth(call, cached) ==
    IF /\ cached # NULL
       /\ ~isStale(cached.fetchedAt, TEXT_STALE_DAYS)
       /\ CachedResult(cached).languagesLoaded = [he |-> TRUE, en |-> TRUE]
    THEN [call EXCEPT !.pc = "done", !.cached = cached, !.hit = "fresh",
                      !.result = CachedResult(cached)]
    ELSE [call EXCEPT !.pc = "probe", !.cached = cached,
                      !.hit = IF cached # NULL THEN "stale" ELSE "miss"]

\* lines 437-448: the read returns; a fresh entry is returned at once
AfterGetTextFromDB(call, cached) ==
    IF cached # NULL /\ ~isStale(cached.fetchedAt, TEXT_STALE_DAYS)
    THEN [call EXCEPT !.pc = "done", !.cached = cached, !.hit = "fresh",
                      !.result = CachedResult(cached)]
    ELSE [call EXCEPT !.pc = "probe", !.cached = cached,
                      !.hit = IF cached # NULL THEN "stale" ELSE "miss"]

GetTextFromDB(c) ==
    /\ calls[c].pc = "db"
    /\ calls' = [calls EXCEPT ![c] = AfterGetTextFromDB(@, texts[@.ref])]
    /\ UNCHANGED <<texts, textWrites, merge, envVars, procVars, bootVars, prefVars, syncVars, calVars>>

\* as AfterIsReachable, with the stale fallback only on a failed fetch:
\* the requests are issued whenever an entry is cached
AfterIsReachableFetchesFirst(call, reachable) ==
    IF ~reachable /\ call.cached = NULL
    THEN [call EXCEPT !.pc = "done", !.probes = @ + 1,
                      !.result = Failure("Offline and no cached text available")]
    ELSE [call EXCEPT !.pc = "net", !.probes = @ + 1, !.requests = @ + 2,
                      !.cached = NULL]

\* lines 451-465: the probe returns; offline falls back to the stale entry,
\* online issues the two language requests
AfterIsReachable(call, reachable) ==
    IF ~reachable
    THEN IF call.cached # NULL
         THEN [call EXCEPT !.pc = "done", !.probes = @ + 1,
                           !.result = CachedResult(call.cached)]
         ELSE [call EXCEPT !.pc = "done", !.probes = @ + 1,
                           !.result = Failure("Offline and no cached text available")]
    ELSE [call EXCEPT !.pc = "net", !.probes = @ + 1, !.requests = @ + 2,
                      !.cached = NULL]

ProbeReachable(c) ==
    /\ calls[c].pc = "probe"
    /\ calls' = [calls EXCEPT ![c] = AfterIsReachable(@, isReachable)]
    /\ UNCHANGED <<texts, textWrites, merge, envVars, procVars, bootVars, prefVars, syncVars, calVars>>

\* as AfterNetwork, with the write awaited before the result is returned
AfterNetworkAwaitsSave(call, he, en) ==
    [call EXCEPT !.pc = IF NetworkResult(he, en).status = "ok" THEN "save" ELSE "done",
                 !.result = NetworkResult(he, en)]

\* as AfterNetwork, with the entry of the Store returned when both requests
\* failed, as fetchCalendar does
AfterNetworkFallsBack(call, he, en) ==
    IF he = NULL /\ en = NULL /\ texts[call.ref] # NULL
    THEN [call EXCEPT !.pc = "done", !.result = CachedResult(texts[call.ref])]
    ELSE [call EXCEPT !.pc = "done", !.result = NetworkResult(he, en)]

\* lines 465-475: both requests have settled; a failure of both is thrown,
\* otherwise the result is returned
AfterNetwork(call, he, en) ==
    [call EXCEPT !.pc = "done", !.result = NetworkResult(he, en)]

\* lines 468-473: saveTextToDB is called, not awaited, when the fetch succeeded
SavesAfterNetwork(call) ==
    IF call.result.status = "ok"
    THEN {StoredText(call.ref, call.result)}
    ELSE {}

NetworkSettles(c, heOk, enOk) ==
    /\ calls[c].pc = "net"
    /\ LET he == IF heOk THEN ResponseOf("he", remote[calls[c].ref]) ELSE NULL
           en == IF enOk THEN ResponseOf("en", remote[calls[c].ref]) ELSE NULL
           after == AfterNetwork(calls[c], he, en)
       IN  /\ calls' = [calls EXCEPT ![c] = [after EXCEPT !.heOk = heOk, !.enOk = enOk]]
           /\ textWrites' = textWrites \cup SavesAfterNetwork(after)
    /\ UNCHANGED <<texts, merge, envVars, procVars, bootVars, prefVars, syncVars, calVars>>

\* the caller takes the result
ReturnFetchHalakhot(c) ==
    /\ calls[c].pc = "done"
    /\ calls[c].owner = "caller"
    /\ calls' = [calls EXCEPT ![c] =
                   [IdleCall EXCEPT !.failedRef =
                       IF calls[c].requests > 0 /\ ~calls[c].heOk /\ ~calls[c].enOk
                       THEN calls[c].ref ELSE ""]]
    /\ UNCHANGED <<texts, textWrites, merge, envVars, procVars, bootVars, prefVars, syncVars, calVars>>

\* as SaveTextLands, with a put that keeps the passages of the entry it
\* finds under the key
SaveTextLandsMerging(w) ==
    /\ w \in textWrites
    /\ texts' = [texts EXCEPT ![w.ref] =
                    IF @ = NULL THEN w ELSE [w EXCEPT !.halakhot = texts[w.ref].halakhot]]
    /\ textWrites' = textWrites \ {w}
    /\ UNCHANGED <<calls, merge, envVars, procVars, bootVars, prefVars, syncVars, calVars>>

\* a saveTextToDB in flight completes: the put lands ...
SaveTextLands(w) ==
    /\ w \in textWrites
    /\ texts' = [texts EXCEPT ![w.ref] = w]
    /\ textWrites' = textWrites \ {w}
    /\ UNCHANGED <<calls, merge, envVars, procVars, bootVars, prefVars, syncVars, calVars>>

\* ... or fails with storage-unavailable, which .catch only logs
SaveTextFails(w) ==
    /\ w \in textWrites
    /\ textWrites' = textWrites \ {w}
    /\ UNCHANGED <<texts, calls, merge, envVars, procVars, bootVars, prefVars, syncVars, calVars>>

-----------------------------------------------------------------------------
(* fetchMultipleHalakhot, src/unnamed/part_007 lines 484-545 *)

\* the reference lists of length 0..n
RECURSIVE RefLists(_)
RefLists(n) ==
    IF n = 0 THEN {<<>>}
    ELSE [1..n -> Refs] \cup RefLists(n - 1)

\* result.halakhot.forEach((h, i) => { allHalakhot.push({...h, chapter: idx + 1,
\*   isFirstInChapter: i === 0}); currentIndex++ })
RECURSIVE MergePassages(_, _, _, _)
MergePassages(halakhot, idx, i, acc) ==
    IF i >= Len(halakhot) THEN acc
    ELSE MergePassages(halakhot, idx, i + 1,
            [acc EXCEPT
               !.allHalakhot = Append(@, [At(halakhot, i) EXCEPT
                                            !.chapter = idx + 1,
                                            !.isFirstInChapter = (i = 0)]),
               !.currentIndex = @ + 1])

\* as PushRefBreak, without the test that passages precede the reference
PushRefBreakAtZero(idx, acc) ==
    IF idx > 0
    THEN [acc EXCEPT !.allChapterBreaks = Append(@, acc.currentIndex)]
    ELSE acc

\* if (idx > 0 && currentIndex > 0) allChapterBreaks.push(currentIndex)
PushRefBreak(idx, acc) ==
    IF idx > 0 /\ acc.currentIndex > 0
    THEN [acc EXCEPT !.allChapterBreaks = Append(@, acc.currentIndex)]
    ELSE acc

\* if (!result.languagesLoaded.he) allHe = false; likewise for en
AndLanguages(result, acc) ==
    [acc EXCEPT !.allHe = @ /\ result.languagesLoaded.he,
                !.allEn = @ /\ result.languagesLoaded.en]

\* as MergeOne, with a failed reference skipped and the flags left alone
MergeOneSkipsFailed(result, idx, acc) ==
    IF result = NULL
    THEN acc
    ELSE MergePassages(result.halakhot, idx, 0,
                       PushRefBreak(idx, AndLanguages(result, acc)))

\* the body of results.forEach((result, idx) => { ... }), lines 515-538
MergeOne(result, idx, acc) ==
    IF result = NULL
    THEN [acc EXCEPT !.allHe = FALSE, !.allEn = FALSE]
    ELSE MergePassages(result.halakhot, idx, 0,
                       PushRefBreak(idx, AndLanguages(result, acc)))

RECURSIVE MergeLoop(_, _, _)
MergeLoop(results, idx, acc) ==
    IF idx >= Len(results) THEN acc
    ELSE MergeLoop(results, idx + 1, MergeOne(At(results, idx), idx, acc))

\* lines 506-544, given the settled results (NULL where fetchHalakhot threw)
CombineResults(results) ==
    LET acc == MergeLoop(results, 0,
                   [allHalakhot |-> <<>>, allChapterBreaks |-> <<>>,
                    currentIndex |-> 0, allHe |-> TRUE, allEn |-> TRUE])
    IN  [status |-> "ok",
         halakhot |-> acc.allHalakhot,
         chapterBreaks |-> acc.allChapterBreaks,
         languagesLoaded |-> [he |-> acc.allHe, en |-> acc.allEn]]

\* fetchHalakhot(ref).catch(() => null)
CatchNull(result) == IF result.status = "ok" THEN result ELSE NULL

\* lines 489-504: the empty list returns at once, a list of one reference
\* returns fetchHalakhot(refs[0]), a longer list starts one fetchHalakhot
\* for each reference
StartFetchMultipleHalakhot(refs) ==
    /\ Quiet
    /\ IF Len(refs) = 0
       THEN /\ merge' = [pc |-> "done", refs |-> refs, parts |-> <<>>,
                         result |-> [status |-> "ok", halakhot |-> <<>>,
                                     chapterBreaks |-> <<>>,
                                     languagesLoaded |-> [he |-> TRUE, en |-> TRUE]]]
            /\ UNCHANGED calls
       ELSE /\ merge' = [IdleMerge EXCEPT
                           !.pc = IF Len(refs) = 1 THEN "single" ELSE "all",
                           !.refs = refs]
            /\ calls' = [c \in Slots |->
                           IF c <= Len(refs)
                           THEN BeginFetchHalakhot(refs[c], "merge")
                           ELSE IdleCall]
    /\ UNCHANGED <<texts, textWrites, envVars, procVars, bootVars, prefVars, syncVars, calVars>>

\* line 498: return fetchHalakhot(refs[0]): its result or its failure
SingleSettles ==
    /\ merge.pc = "single"
    /\ calls[1].pc = "done"
    /\ merge' = [merge EXCEPT !.pc = "done",
                              !.parts = << calls[1].result >>,
                              !.result = calls[1].result]
    /\ calls' = [calls EXCEPT ![1] = IdleCall]
    /\ UNCHANGED <<texts, textWrites, envVars, procVars, bootVars, prefVars, syncVars, calVars>>

\* lines 502-544: Promise.all has resolved, the results are combined
AllSettle ==
    /\ merge.pc = "all"
    /\ \A c \in 1..Len(merge.refs) : calls[c].pc = "done"
    /\ LET parts == [c \in 1..Len(merge.refs) |-> calls[c].result]
           results == [c \in 1..Len(merge.refs) |-> CatchNull(parts[c])]
       IN  merge' = [merge EXCEPT !.pc = "done", !.parts = parts,
                                  !.result = CombineResults(results)]
    /\ calls' = [c \in Slots |-> IdleCall]
    /\ UNCHANGED <<texts, textWrites, envVars, procVars, bootVars, prefVars, syncVars, calVars>>

\* the caller takes the result
ReturnFetchMultipleHalakhot ==
    /\ merge.pc = "done"
    /\ merge' = IdleMerge
    /\ UNCHANGED <<texts, textWrites, calls, envVars, procVars, bootVars, prefVars, syncVars, calVars>>

-----------------------------------------------------------------------------
(* The calendar fetcher: fetchCalendar and fetchSefariaCalendar,           *)
(* src/unnamed/part_007 lines 185-298                                      *)

Paths == {"rambam3", "rambam1", "mitzvot"}
Dates == {"d1", "d2"}

CALENDAR_STALE_DAYS == 1

\* types SEFARIA_CALENDAR_NAMES: the remote calendar's title of a path
SEFARIA_CALENDAR_NAMES(path) ==
    IF path = "rambam3" THEN "Daily Rambam (3 Chapters)" ELSE "Daily Rambam"

CalendarKeys == (Paths \ {"mitzvot"}) \X Dates

\* a display string of the remote calendar or of the local date library
Display(lang, what) == [chars |-> <<lang, what>>]

\* studySchedule.ts computeHebrewDate(dateStr): computed locally
computeHebrewDate(dateStr) ==
    [heDate |-> Display("he", dateStr), enDate |-> Display("en", dateStr)]

\* studySchedule.ts resolveMitzvotSchedule(dateStr): computed locally from
\* the date alone; it touches neither the Store nor the network
resolveMitzvotSchedule(dateStr) ==
    [status |-> "ok",
     he |-> Display("he", <<"mitzvot", dateStr>>),
     en |-> Display("en", <<"mitzvot", dateStr>>),
     ref |-> <<"mitzvot", dateStr>>,
     heDate |-> computeHebrewDate(dateStr).heDate,
     enDate |-> computeHebrewDate(dateStr).enDate]

\* reads, saves, probes and requests record what the call has done so far
IdleCalendarCall ==
    [pc |-> "idle", date |-> "", path |-> "", cached |-> NULL, hit |-> "",
     reads |-> 0, saves |-> 0, probes |-> 0, requests |-> 0, result |-> NULL]

\* one item of the remote calendar's calendar_items
CalendarItem(title, ref) ==
    [title |-> [en |-> title],
     displayValue |-> [he |-> Display("he", ref), en |-> Display("en", ref)],
     ref |-> ref]

\* the remote calendar's answers for one day: the list holds other
\* calendars' items and, unless the provider dropped them, the Rambam items
CalendarResponses ==
    {[ok |-> TRUE, calendar_items |-> << CalendarItem("Daf Yomi", "r1") >>]}
    \cup {[ok |-> TRUE,
           calendar_items |-> << CalendarItem("Daf Yomi", "r1"),
                                 CalendarItem("Daily Rambam", r),
                                 CalendarItem("Daily Rambam (3 Chapters)", r) >>]
          : r \in Refs}
    \cup {[ok |-> FALSE, calendar_items |-> <<>>]}

\* data.calendar_items.find((item) => item.title.en === calendarName)
RECURSIVE FindItem(_, _, _)
FindItem(items, calendarName, idx) ==
    IF idx >= Len(items) THEN NULL
    ELSE IF At(items, idx).title.en = calendarName THEN At(items, idx)
    ELSE FindItem(items, calendarName, idx + 1)

\* { he: cached.he, en: cached.en, ref: cached.ref, heDate, enDate }
CachedCalendar(cached, dateStr) ==
    [status |-> "ok", he |-> cached.he, en |-> cached.en, ref |-> cached.ref,
     heDate |-> computeHebrewDate(dateStr).heDate,
     enDate |-> computeHebrewDate(dateStr).enDate]

\* database.ts saveCalendarToDB(path, date, {he, en, ref, count: 0, ...})
StoredCalendar(path, dateStr, result) ==
    [path |-> path, date |-> dateStr,
     he |-> result.he, en |-> result.en, ref |-> result.ref, count |-> 0,
     heDate |-> result.heDate, enDate |-> result.enDate,
     fetchedAt |-> now]

CalendarQuiet ==
    /\ ccall.pc = "idle"
    /\ calWrites = {}

\* as BeginFetchCalendar, without the branch for the locally computable path
BeginFetchCalendarRemoteOnly(dateStr, path) ==
    [IdleCalendarCall EXCEPT !.pc = "db", !.date = dateStr, !.path = path,
                             !.reads = @ + 1]

\* lines 290-297 and 190-193: the locally computable path returns at once;
\* the other paths enter fetchSefariaCalendar, which issues getCalendarFromDB
BeginFetchCalendar(dateStr, path) ==
    IF path = "mitzvot"
    THEN [IdleCalendarCall EXCEPT !.pc = "done", !.date = dateStr, !.path = path,
                                  !.result = resolveMitzvotSchedule(dateStr)]
    ELSE [IdleCalendarCall EXCEPT !.pc = "db", !.date = dateStr, !.path = path,
                                  !.reads = @ + 1]

StartFetchCalendar(dateStr, path) ==
    /\ CalendarQuiet
    /\ ccall' = BeginFetchCalendar(dateStr, path)
    /\ UNCHANGED <<calendar, calWrites, envVars, textVars, procVars, bootVars, prefVars, syncVars>>

\* as AfterGetCalendarFromDB, without the staleness test: any entry is served
AfterGetCalendarFromDBAnyAge(call, cached) ==
    IF cached # NULL
    THEN [call EXCEPT !.pc = "done", !.cached = cached, !.hit = "fresh",
                      !.result = CachedCalendar(cached, call.date)]
    ELSE [call EXCEPT !.pc = "probe", !.cached = cached, !.hit = "miss"]

\* lines 193-202: the read returns; a fresh entry is returned at once
AfterGetCalendarFromDB(call, cached) ==
    IF cached # NULL /\ ~isStale(cached.fetchedAt, CALENDAR_STALE_DAYS)
    THEN [call EXCEPT !.pc = "done", !.cached = cached, !.hit = "fresh",
                      !.result = CachedCalendar(cached, call.date)]
    ELSE [call EXCEPT !.pc = "probe", !.cached = cached,
                      !.hit = IF cached # NULL THEN "stale" ELSE "miss"]

GetCalendarFromDB ==
    /\ ccall.pc = "db"
    /\ ccall' = AfterGetCalendarFromDB(ccall, calendar[<<ccall.path, ccall.date>>])
    /\ UNCHANGED <<calendar, calWrites, envVars, textVars, procVars, bootVars, prefVars, syncVars>>

\* as AfterCalendarProbe, with the request tried before the stale fallback
AfterCalendarProbeRequestsFirst(call, reachable) ==
    IF ~reachable /\ call.cached = NULL
    THEN [call EXCEPT !.pc = "done", !.probes = @ + 1,
                      !.result = Failure("Offline and no cached data available")]
    ELSE [call EXCEPT !.pc = "net", !.probes = @ + 1, !.requests = @ + 1]

\* lines 205-222: the probe returns; offline falls back to the stale entry,
\* online requests the remote calendar
AfterCalendarProbe(call, reachable) ==
    IF ~reachable
    THEN IF call.cached # NULL
         THEN [call EXCEPT !.pc = "done", !.probes = @ + 1,
                           !.result = CachedCalendar(call.cached, call.date)]
         ELSE [call EXCEPT !.pc = "done", !.probes = @ + 1,
                           !.result = Failure("Offline and no cached data available")]
    ELSE [call EXCEPT !.pc = "net", !.probes = @ + 1, !.requests = @ + 1]

ProbeCalendar ==
    /\ ccall.pc = "probe"
    /\ ccall' = AfterCalendarProbe(ccall, isReachable)
    /\ UNCHANGED <<calendar, calWrites, envVars, textVars, procVars, bootVars, prefVars, syncVars>>

\* line 222: fetch(url) rejects (no response at all): the error propagates
CalendarRequestFails ==
    /\ ccall.pc = "net"
    /\ ccall' = [ccall EXCEPT !.pc = "done", !.result = Failure("fetch failed")]
    /\ UNCHANGED <<calendar, calWrites, envVars, textVars, procVars, bootVars, prefVars, syncVars>>

\* as AfterCalendarResponse, with the stale entry returned when the title
\* is missing, as it is when the response is not ok
AfterCalendarResponseFallsBack(call, res) ==
    LET entry == FindItem(res.calendar_items, SEFARIA_CALENDAR_NAMES(call.path), 0)
    IN  IF ~res.ok \/ entry = NULL
        THEN IF call.cached # NULL
             THEN [call EXCEPT !.pc = "done",
                               !.result = CachedCalendar(call.cached, call.date)]
             ELSE [call EXCEPT !.pc = "done", !.result = Failure("No entry found")]
        ELSE [call EXCEPT !.pc = "done", !.saves = @ + 1,
                !.result = [status |-> "ok",
                            he |-> entry.displayValue.he,
                            en |-> entry.displayValue.en,
                            ref |-> entry.ref,
                            heDate |-> computeHebrewDate(call.date).heDate,
                            enDate |-> computeHebrewDate(call.date).enDate]]

\* lines 223-265: a response arrived
AfterCalendarResponse(call, res) ==
    IF ~res.ok
    THEN IF call.cached # NULL
         THEN [call EXCEPT !.pc = "done",
                           !.result = CachedCalendar(call.cached, call.date)]
         ELSE [call EXCEPT !.pc = "done", !.result = Failure("Calendar API failed")]
    ELSE LET entry == FindItem(res.calendar_items,
                               SEFARIA_CALENDAR_NAMES(call.path), 0)
         IN  IF entry = NULL
             THEN [call EXCEPT !.pc = "done", !.result = Failure("No entry found")]
             ELSE [call EXCEPT !.pc = "done", !.saves = @ + 1,
                     !.result = [status |-> "ok",
                                 he |-> entry.displayValue.he,
                                 en |-> entry.displayValue.en,
                                 ref |-> entry.ref,
                                 heDate |-> computeHebrewDate(call.date).heDate,
                                 enDate |-> computeHebrewDate(call.date).enDate]]

CalendarResponds(res) ==
    /\ ccall.pc = "net"
    /\ LET after == AfterCalendarResponse(ccall, res)
       IN  /\ ccall' = after
           /\ calWrites' = IF after.saves > ccall.saves
                           THEN calWrites \cup
                                {StoredCalendar(after.path, after.date, after.result)}
                           ELSE calWrites
    /\ UNCHANGED <<calendar, envVars, textVars, procVars, bootVars, prefVars, syncVars>>

\* the caller takes the result
ReturnFetchCalendar ==
    /\ ccall.pc = "done"
    /\ ccall' = IdleCalendarCall
    /\ UNCHANGED <<calendar, calWrites, envVars, textVars, procVars, bootVars, prefVars, syncVars>>

\* as SaveCalendarLands, with a put that keeps one day per path
SaveCalendarLandsEvicting(w) ==
    /\ w \in calWrites
    /\ calendar' = [k \in DOMAIN calendar |->
                       IF k = <<w.path, w.date>> THEN w
                       ELSE IF k[1] = w.path THEN NULL ELSE calendar[k]]
    /\ calWrites' = calWrites \ {w}
    /\ UNCHANGED <<ccall, envVars, textVars, procVars, bootVars, prefVars, syncVars>>

\* a saveCalendarToDB in flight completes: the put lands ...
SaveCalendarLands(w) ==
    /\ w \in calWrites
    /\ calendar' = [calendar EXCEPT ![<<w.path, w.date>>] = w]
    /\ calWrites' = calWrites \ {w}
    /\ UNCHANGED <<ccall, envVars, textVars, procVars, bootVars, prefVars, syncVars>>

\* ... or fails with storage-unavailable, which .catch only logs
SaveCalendarFails(w) ==
    /\ w \in calWrites
    /\ calWrites' = calWrites \ {w}
    /\ UNCHANGED <<calendar, ccall, envVars, textVars, procVars, bootVars, prefVars, syncVars>>

\* ---- the environment

\* days pass between operations (an operation takes seconds)
Tick ==
    /\ Quiet
    /\ CalendarQuiet
    /\ ticks < MaxTicks
    /\ ticks' = ticks + 1
    /\ now' = now + TickDays
    /\ UNCHANGED <<online, remote, textVars, procVars, bootVars, prefVars, syncVars, calVars>>

NetworkChanges ==
    /\ online' = ~online
    /\ UNCHANGED <<now, ticks, remote, textVars, procVars, bootVars, prefVars, syncVars, calVars>>

-----------------------------------------------------------------------------
(* prefetchText, src/unnamed/part_007 lines 551-572 *)

\* fetched is the result of fetchHalakhotFromNetwork while it is being saved
IdlePrefetch ==
    [pc |-> "idle", ref |-> "", probes |-> 0, requests |-> 0,
     fetched |-> NULL, result |-> FALSE]

\* no operation of the fetcher is in progress and no write is in flight
FetcherQuiet ==
    /\ Quiet
    /\ CalendarQuiet
    /\ pcall.pc = "idle"

\* the call begins: getTextFromDB(ref) is issued
StartPrefetchText(r) ==
    /\ FetcherQuiet
    /\ pcall' = [IdlePrefetch EXCEPT !.pc = "db", !.ref = r]
    /\ UNCHANGED <<envVars, textVars, calVars, procVars, bootVars, syncVars,
                   buttonVars>>

\* lines 554-560: a fresh entry returns true; otherwise
\* fetchHalakhotFromNetwork(ref) issues its two requests
AfterPrefetchRead(call, cached) ==
    IF cached # NULL /\ ~isStale(cached.fetchedAt, TEXT_STALE_DAYS)
    THEN [call EXCEPT !.pc = "done", !.result = TRUE]
    ELSE [call EXCEPT !.pc = "net", !.requests = @ + 2]

PrefetchGetTextFromDB ==
    /\ pcall.pc = "db"
    /\ pcall' = AfterPrefetchRead(pcall, texts[pcall.ref])
    /\ UNCHANGED <<envVars, textVars, calVars, procVars, bootVars, syncVars,
                   buttonVars>>

\* lines 560-571: the requests have settled; a failure is caught and
\* returns false, a result is handed to saveTextToDB, which is awaited
AfterPrefetchNetwork(call, he, en) ==
    LET result == NetworkResult(he, en)
    IN  IF result.status = "ok"
        THEN [call EXCEPT !.pc = "save", !.fetched = result]
        ELSE [call EXCEPT !.pc = "done", !.result = FALSE]

PrefetchNetworkSettles(heOk, enOk) ==
    /\ pcall.pc = "net"
    /\ pcall' = AfterPrefetchNetwork(pcall,
                   IF heOk THEN ResponseOf("he", remote[pcall.ref]) ELSE NULL,
                   IF enOk THEN ResponseOf("en", remote[pcall.ref]) ELSE NULL)
    /\ UNCHANGED <<envVars, textVars, calVars, procVars, bootVars, syncVars,
                   buttonVars>>

\* lines 561-567: await saveTextToDB(...) resolves: return true
PrefetchSaveLands ==
    /\ pcall.pc = "save"
    /\ texts' = [texts EXCEPT ![pcall.ref] = StoredText(pcall.ref, pcall.fetched)]
    /\ pcall' = [pcall EXCEPT !.pc = "done", !.fetched = NULL, !.result = TRUE]
    /\ UNCHANGED <<textWrites, calls, merge, envVars, calVars, procVars, bootVars, syncVars,
                   buttonVars>>

\* lines 568-571: await saveTextToDB(...) rejects: caught, return false
PrefetchSaveFails ==
    /\ pcall.pc = "save"
    /\ pcall' = [pcall EXCEPT !.pc = "done", !.fetched = NULL, !.result = FALSE]
    /\ UNCHANGED <<envVars, textVars, calVars, procVars, bootVars, syncVars,
                   buttonVars>>

\* the caller takes the result
ReturnPrefetchText ==
    /\ pcall.pc = "done"
    /\ pcall' = IdlePrefetch
    /\ UNCHANGED <<envVars, textVars, calVars, procVars, bootVars, syncVars,
                   buttonVars>>

-----------------------------------------------------------------------------
(* The download button: src/src/components/settings/PrefetchButton.tsx *)

\* clicks handled by the button
MaxClicks == 4

\* what prefetchWeekAhead reports through its callback: days completed and
\* failed out of the total
ProgressReports ==
    {[completed |-> 1, failed |-> 0, total |-> 2],
     [completed |-> 1, failed |-> 1, total |-> 2]}

\* what the button leaves alone
ButtonFrame ==
    UNCHANGED <<pcall, envVars, textVars, calVars, procVars, bootVars, syncVars>>

\* line 63: const isDisabled = state === "prefetching"
isDisabled == button.state = "prefetching"

\* lines 23-37 and 75-76: a click on the enabled button calls
\* handlePrefetch; can is what canPrefetch() returns
HandlePrefetch(can) ==
    /\ ~isDisabled
    /\ clicks < MaxClicks
    /\ clicks' = clicks + 1
    /\ IF ~can
       THEN /\ button' = [button EXCEPT !.errorMessage = "noConnection",
                                        !.state = "error"]
            /\ UNCHANGED weekPrefetches
       ELSE /\ button' = [button EXCEPT !.state = "prefetching",
                                        !.errorMessage = NULL]
            /\ weekPrefetches' = weekPrefetches + 1
    /\ UNCHANGED resetTimers
    /\ ButtonFrame

\* lines 35-37: the callback of a prefetch in progress: setProgress(p)
ProgressReported(p) ==
    /\ weekPrefetches > 0
    /\ button' = [button EXCEPT !.progress = p]
    /\ UNCHANGED <<weekPrefetches, resetTimers, clicks>>
    /\ ButtonFrame

\* lines 39-56: prefetchWeekAhead resolves; the state is set from
\* result.success and the reset is scheduled
WeekPrefetchResolves(success) ==
    /\ weekPrefetches > 0
    /\ weekPrefetches' = weekPrefetches - 1
    /\ button' = IF success
                 THEN [button EXCEPT !.state = "success"]
                 ELSE [button EXCEPT !.state = "error",
                                     !.errorMessage = "downloadFailed"]
    /\ resetTimers' = resetTimers + 1
    /\ UNCHANGED clicks
    /\ ButtonFrame

\* lines 57-60: prefetchWeekAhead rejects; no reset is scheduled
WeekPrefetchRejects ==
    /\ weekPrefetches > 0
    /\ weekPrefetches' = weekPrefetches - 1
    /\ button' = [button EXCEPT !.state = "error", !.errorMessage = "tryAgain"]
    /\ UNCHANGED <<resetTimers, clicks>>
    /\ ButtonFrame

\* lines 52-56: a reset scheduled 3 seconds earlier runs
ResetTimerFires ==
    /\ resetTimers > 0
    /\ resetTimers' = resetTimers - 1
    /\ button' = [state |-> "idle", progress |-> NULL, errorMessage |-> NULL]
    /\ UNCHANGED <<weekPrefetches, clicks>>
    /\ ButtonFrame

NextButton ==
    \/ \E can \in BOOLEAN : HandlePrefetch(can)
    \/ \E p \in ProgressReports : ProgressReported(p)
    \/ \E success \in BOOLEAN : WeekPrefetchResolves(success)
    \/ WeekPrefetchRejects
    \/ ResetTimerFires

-----------------------------------------------------------------------------
(* Background sync: backgroundSync.ts, src/unnamed/part_005 *)

\* const PREFETCH_KEY = "lastDailyPrefetch"
PREFETCH_KEY == "lastDailyPrefetch"

\* const PREFETCH_DAYS_AHEAD = 3
PREFETCH_DAYS_AHEAD == 3

\* getUpcomingDates: for (let i = 0; i < 3; i++)
UpcomingDays == 3

\* runSync: const paths = ["rambam3", "rambam1", "mitzvot"]
SyncPaths == <<"rambam3", "rambam1", "mitzvot">>

\* getTodayInIsrael(): the calendar day of the clock
getTodayInIsrael == now

\* the dates a run can name, and the keys of the calendar collection then
SyncDates == 0..(MaxTicks * TickDays + PREFETCH_DAYS_AHEAD)
SyncCalendarKeys == Paths \X SyncDates

\* The runSync in progress: pc is the await it is suspended at, i and p
\* index the date and the path of its loops, today is the day its current
\* loop counts from, calData, count and cached are locals of the loop
\* bodies.  History: prefetched tells that the run entered runDailyPrefetch,
\* failed that it caught a fetch failure, attempts lists its fetchCalendar
\* calls as <<phase, path, date>>, outcome tells how the last runSync that
\* passed its guard settled ("none" before the first)
IdleRun ==
    [pc |-> "idle", i |-> 0, p |-> 0, today |-> 0,
     calData |-> NULL, cached |-> NULL, count |-> 0,
     prefetched |-> FALSE, failed |-> FALSE, attempts |-> <<>>,
     outcome |-> "none"]

\* as RunSyncCatch, without the catch: the finally runs and the promise of
\* runSync rejects
RunSyncRethrows(r) ==
    [r EXCEPT !.pc = "finally", !.outcome = "threw"]

\* as RunSyncCatch, without the finally: runSync returns from its catch
RunSyncCatchOnly(r) ==
    [r EXCEPT !.pc = "idle", !.outcome = "returned"]

\* lines 171-177: a rejection outside the loops' own try is caught and
\* logged, the finally runs and runSync returns
RunSyncCatch(r) ==
    [r EXCEPT !.pc = "finally", !.outcome = "returned"]

\* as canSync, with the offline store consulted as well
canSyncUnlessUserOffline(onLine, isVisible) ==
    IF state = "user-offline" THEN FALSE
    ELSE IF ~onLine THEN FALSE
    ELSE IF ~isVisible THEN FALSE
    ELSE TRUE

\* lines 28-43: navigator.onLine and document.visibilityState
canSync(onLine, isVisible) ==
    IF ~onLine THEN FALSE
    ELSE IF ~isVisible THEN FALSE
    ELSE TRUE

\* as RunSyncReturnsEarly, without the test of the flag
RunSyncIgnoresFlag(inProgress, onLine, isVisible) ==
    ~canSync(onLine, isVisible)

\* line 151: if (syncInProgress || !canSync()) return
RunSyncReturnsEarly(inProgress, onLine, isVisible) ==
    inProgress \/ ~canSync(onLine, isVisible)

\* lines 91-97: !lastPrefetch || lastPrefetch < today
shouldRunDailyPrefetch(today, lastPrefetch) ==
    lastPrefetch = NULL \/ lastPrefetch.value < today

\* the call fetchCalendar(date, studyPath) of iteration i of runDailyPrefetch
BeginPrefetchDate(r) ==
    [r EXCEPT !.pc = "pf_cal", !.calData = NULL, !.count = 0,
              !.attempts = Append(@, <<"prefetch", studyPath, r.today + r.i>>)]

\* as AdvancePrefetch, with the day marked only when no date failed
AdvancePrefetchMarksSuccess(r) ==
    IF r.i + 1 < PREFETCH_DAYS_AHEAD
    THEN BeginPrefetchDate([r EXCEPT !.i = @ + 1])
    ELSE IF r.failed
         THEN [r EXCEPT !.pc = "sp_read", !.p = 0, !.i = 0, !.cached = NULL,
                        !.calData = NULL, !.count = 0]
         ELSE [r EXCEPT !.pc = "setmeta", !.calData = NULL, !.count = 0]

\* lines 110-143: the next iteration, or setMeta after the last one
AdvancePrefetch(r) ==
    IF r.i + 1 < PREFETCH_DAYS_AHEAD
    THEN BeginPrefetchDate([r EXCEPT !.i = @ + 1])
    ELSE [r EXCEPT !.pc = "setmeta", !.calData = NULL, !.count = 0]

\* as OnPrefetchFailure, with the try around the loop instead of inside it
OnPrefetchFailureAborts(r) ==
    [r EXCEPT !.failed = TRUE, !.pc = "finally"]

\* lines 137-139: a failure inside one iteration is caught and logged
OnPrefetchFailure(r) ==
    AdvancePrefetch([r EXCEPT !.failed = TRUE])

\* lines 103-110: runDailyPrefetch begins
BeginDailyPrefetch(r) ==
    BeginPrefetchDate([r EXCEPT !.prefetched = TRUE, !.today = getTodayInIsrael,
                                !.i = 0])

\* lines 65-71: syncPath(paths[p]) begins: the dates are computed and
\* getCalendarFromDB is issued for the first of them
BeginSyncPath(r, p) ==
    [r EXCEPT !.pc = "sp_read", !.p = p, !.i = 0, !.today = getTodayInIsrael,
              !.cached = NULL, !.calData = NULL, !.count = 0]

\* lines 159-167: after shouldRunDailyPrefetch
AfterShouldRunDailyPrefetch(r, should) ==
    IF should THEN BeginDailyPrefetch(r) ELSE BeginSyncPath(r, 0)

\* as AfterPrefetchCalendar, with the localized date fetched before the text
AfterPrefetchCalendarDateFirst(r, result) ==
    IF result.status = "ok"
    THEN [r EXCEPT !.pc = "pf_heb", !.calData = result]
    ELSE OnPrefetchFailure(r)

\* lines 116-119: fetchCalendar has settled in runDailyPrefetch
AfterPrefetchCalendar(r, result) ==
    IF result.status = "ok"
    THEN [r EXCEPT !.pc = "pf_text", !.calData = result]
    ELSE OnPrefetchFailure(r)

\* lines 119-122: fetchHalakhot has settled in runDailyPrefetch
AfterPrefetchText(r, result) ==
    IF result.status = "ok"
    THEN [r EXCEPT !.pc = "pf_heb", !.count = Len(result.halakhot)]
    ELSE OnPrefetchFailure(r)

\* lines 68-83 and 166-175: the next date, the next path, or the end
AdvanceSyncPath(r) ==
    IF r.i + 1 < UpcomingDays
    THEN [r EXCEPT !.pc = "sp_read", !.i = @ + 1, !.cached = NULL]
    ELSE IF r.p + 1 < Len(SyncPaths)
         THEN BeginSyncPath(r, r.p + 1)
         ELSE [r EXCEPT !.pc = "finally", !.outcome = "returned"]

\* lines 80-82: a failure for one date is caught and logged
OnSyncPathFailure(r) ==
    AdvanceSyncPath([r EXCEPT !.failed = TRUE])

\* line 74: fetchCalendar(date, path) is called with what was read
AfterSyncRead(r, cached) ==
    [r EXCEPT !.pc = "sp_cal", !.cached = cached,
              !.attempts = Append(@, <<"refresh", At(SyncPaths, r.p), r.today + r.i>>)]

\* lines 74-82: fetchCalendar has settled in syncPath
AfterSyncCalendar(r, result) ==
    IF result.status = "ok" THEN AdvanceSyncPath(r) ELSE OnSyncPathFailure(r)

\* The run goes on as r says: the call r is suspended at is started in the
\* same step; at "finally" the flag is cleared and the run is over
Continue(r) ==
    /\ ccall' = CASE r.pc = "pf_cal" -> BeginFetchCalendar(r.today + r.i, studyPath)
                  [] r.pc = "sp_cal" ->
                       BeginFetchCalendar(r.today + r.i, At(SyncPaths, r.p))
                  [] OTHER -> IdleCalendarCall
    /\ calls' = [calls EXCEPT ![1] =
                   IF r.pc = "pf_text"
                   THEN BeginFetchHalakhot(r.calData.ref, "sync")
                   ELSE IdleCall]
    /\ IF r.pc = "finally"
       THEN /\ run' = [IdleRun EXCEPT !.outcome = r.outcome]
            /\ syncInProgress' = FALSE
            /\ active' = active - 1
       ELSE /\ run' = r
            /\ UNCHANGED <<syncInProgress, active>>

\* no write of the run is in flight (a put settles before the run goes on)
WritesSettled ==
    /\ textWrites = {}
    /\ calWrites = {}

\* lines 150-159: runSync() is called; shouldRunDailyPrefetch takes the day
\* and issues getMeta
RunSync(onLine, isVisible) ==
    IF RunSyncReturnsEarly(syncInProgress, onLine, isVisible)
    THEN UNCHANGED <<syncInProgress, active, run>>
    ELSE /\ syncInProgress' = TRUE
         /\ active' = active + 1
         /\ run' = [IdleRun EXCEPT !.pc = "getmeta", !.today = getTodayInIsrael,
                                   !.outcome = run.outcome]

\* lines 188-195: the initial timeout or the 30-minute interval fires
TimerFires ==
    /\ RunSync(navOnLine, visible)
    /\ UNCHANGED <<visible, navOnLine, meta, studyPath, dayData, prefetchDays,
                   envVars, textVars, calVars, procVars, bootVars, prefVars>>

\* lines 227-229: triggerSync()
TriggerSync ==
    /\ RunSync(navOnLine, visible)
    /\ UNCHANGED <<visible, navOnLine, meta, studyPath, dayData, prefetchDays,
                   envVars, textVars, calVars, procVars, bootVars, prefVars>>

\* lines 198-204: visibilitychange to visible
BecomesVisible ==
    /\ ~visible
    /\ visible' = TRUE
    /\ RunSync(navOnLine, TRUE)
    /\ UNCHANGED <<navOnLine, meta, studyPath, dayData, prefetchDays,
                   envVars, textVars, calVars, procVars, bootVars, prefVars>>

\* visibilitychange to hidden: the listener does nothing
BecomesHidden ==
    /\ visible
    /\ visible' = FALSE
    /\ UNCHANGED <<syncInProgress, active, run, navOnLine, meta, studyPath, dayData,
                   prefetchDays, envVars, textVars, calVars, procVars, bootVars, prefVars>>

\* lines 207-211: the browser's online event; whether the network is usable
\* is another matter
GoesOnline ==
    /\ ~navOnLine
    /\ navOnLine' = TRUE
    /\ online' \in BOOLEAN
    /\ RunSync(TRUE, visible)
    /\ UNCHANGED <<visible, meta, studyPath, dayData, prefetchDays,
                   now, ticks, remote, textVars, calVars, procVars, bootVars, prefVars>>

\* the browser's offline event: nothing is reachable
GoesOffline ==
    /\ navOnLine
    /\ navOnLine' = FALSE
    /\ online' = FALSE
    /\ UNCHANGED <<syncInProgress, active, run, visible, meta, studyPath, dayData,
                   prefetchDays, now, ticks, remote, textVars, calVars, procVars, bootVars,
                   prefVars>>

\* the browser reports online all along, a probe's answer changes
ReachabilityChanges ==
    /\ navOnLine
    /\ NetworkChanges

\* lines 93-96 and 159-167: getMeta returns
GetMetaReturns ==
    /\ run.pc = "getmeta"
    /\ WritesSettled
    /\ LET should == shouldRunDailyPrefetch(run.today, meta[PREFETCH_KEY])
       IN  /\ Continue(AfterShouldRunDailyPrefetch(run, should))
           /\ prefetchDays' = IF should
                              THEN prefetchDays \cup {getTodayInIsrael}
                              ELSE prefetchDays
    /\ UNCHANGED <<visible, navOnLine, meta, studyPath, dayData, envVars,
                   texts, textWrites, merge, calendar, calWrites, procVars, bootVars, prefVars>>

\* line 93 rejects with storage-unavailable: runSync's catch logs it and
\* the run is over
GetMetaFails ==
    /\ run.pc = "getmeta"
    /\ WritesSettled
    /\ Continue(RunSyncCatch(run))
    /\ UNCHANGED <<visible, navOnLine, meta, studyPath, dayData, prefetchDays, envVars,
                   texts, textWrites, merge, calendar, calWrites, procVars, bootVars, prefVars>>

\* lines 116-119: fetchCalendar settles in runDailyPrefetch
PrefetchCalendarReturns ==
    /\ run.pc = "pf_cal"
    /\ ccall.pc = "done"
    /\ WritesSettled
    /\ Continue(AfterPrefetchCalendar(run, ccall.result))
    /\ UNCHANGED <<visible, navOnLine, meta, studyPath, dayData, prefetchDays, envVars,
                   texts, textWrites, merge, calendar, calWrites, procVars, bootVars, prefVars>>

\* lines 119-122: fetchHalakhot settles; fetchHebrewDate sends its request
PrefetchTextReturns ==
    /\ run.pc = "pf_text"
    /\ calls[1].pc = "done"
    /\ WritesSettled
    /\ Continue(AfterPrefetchText(run, calls[1].result))
    /\ UNCHANGED <<visible, navOnLine, meta, studyPath, dayData, prefetchDays, envVars,
                   texts, textWrites, merge, calendar, calWrites, procVars, bootVars, prefVars>>

\* what the remote converter can do with a request: fail, answer without
\* the parts of the date, or answer in full
ConverterAnswers == {"error", "incomplete", "complete"}

\* hebcal.ts fetchHebrewDate (src/unnamed/part_006 lines 88-119): not ok
\* throws, an answer without both strings gives null, otherwise the two
\* strings
fetchHebrewDate(dateStr, answer) ==
    CASE answer = "error" -> Failure("Converter API failed")
      [] answer = "incomplete" -> NULL
      [] OTHER -> [status |-> "ok", he |-> Display("he", dateStr),
                   en |-> Display("en", dateStr)]

\* lines 125-134: setDayData(studyPath, date, {...}); dateResult?.he and
\* dateResult?.en are undefined when dateResult is null
DayData(r, date, dateResult) ==
    LET entry == [path |-> studyPath, date |-> date,
                  he |-> r.calData.he, en |-> r.calData.en, ref |-> r.calData.ref,
                  count |-> r.count]
    IN  IF dateResult = NULL
        THEN entry
        ELSE entry @@ [heDate |-> dateResult.he, enDate |-> dateResult.en]

\* as HebrewDateSettles, with a failed date request treated as null
HebrewDateSettlesLenient(answer) ==
    /\ run.pc = "pf_heb"
    /\ WritesSettled
    /\ LET date == run.today + run.i
           dateResult == IF answer = "error" THEN NULL
                         ELSE fetchHebrewDate(date, answer)
       IN  /\ dayData' = {d \in dayData : d.path # studyPath \/ d.date # date}
                             \cup {DayData(run, date, dateResult)}
           /\ Continue(AdvancePrefetch(run))
    /\ UNCHANGED <<visible, navOnLine, meta, studyPath, prefetchDays, envVars,
                   texts, textWrites, merge, calendar, calWrites, procVars, bootVars, prefVars>>

\* lines 122-139: fetchHebrewDate settles
HebrewDateSettles(answer) ==
    /\ run.pc = "pf_heb"
    /\ WritesSettled
    /\ LET date == run.today + run.i
           dateResult == fetchHebrewDate(date, answer)
       IN  IF dateResult = NULL \/ dateResult.status = "ok"
           THEN /\ dayData' = {d \in dayData : d.path # studyPath \/ d.date # date}
                                 \cup {DayData(run, date, dateResult)}
                /\ Continue(AdvancePrefetch(run))
           ELSE /\ dayData' = dayData
                /\ Continue(OnPrefetchFailure(run))
    /\ UNCHANGED <<visible, navOnLine, meta, studyPath, prefetchDays, envVars,
                   texts, textWrites, merge, calendar, calWrites, procVars, bootVars, prefVars>>

\* line 143: setMeta(PREFETCH_KEY, getTodayInIsrael()) resolves;
\* lines 164-167: the first syncPath begins
SetMetaLands ==
    /\ run.pc = "setmeta"
    /\ meta' = [meta EXCEPT ![PREFETCH_KEY] = [value |-> getTodayInIsrael]]
    /\ Continue(BeginSyncPath(run, 0))
    /\ UNCHANGED <<visible, navOnLine, studyPath, dayData, prefetchDays, envVars,
                   texts, textWrites, merge, calendar, calWrites, procVars, bootVars, prefVars>>

\* line 143 rejects with storage-unavailable: runSync's catch logs it
\* (lines 171-175) and the run is over
SetMetaFails ==
    /\ run.pc = "setmeta"
    /\ Continue(RunSyncCatch(run))
    /\ UNCHANGED <<visible, navOnLine, meta, studyPath, dayData, prefetchDays, envVars,
                   texts, textWrites, merge, calendar, calWrites, procVars, bootVars, prefVars>>

\* lines 71-74: getCalendarFromDB returns in syncPath
SyncReadReturns ==
    /\ run.pc = "sp_read"
    /\ WritesSettled
    /\ Continue(AfterSyncRead(run,
                   calendar[<<At(SyncPaths, run.p), run.today + run.i>>]))
    /\ UNCHANGED <<visible, navOnLine, meta, studyPath, dayData, prefetchDays, envVars,
                   texts, textWrites, merge, calendar, calWrites, procVars, bootVars, prefVars>>

\* line 71 rejects with storage-unavailable: the catch of the date logs it
SyncReadFails ==
    /\ run.pc = "sp_read"
    /\ WritesSettled
    /\ Continue(OnSyncPathFailure(run))
    /\ UNCHANGED <<visible, navOnLine, meta, studyPath, dayData, prefetchDays, envVars,
                   texts, textWrites, merge, calendar, calWrites, procVars, bootVars, prefVars>>

\* lines 74-83: fetchCalendar settles in syncPath
SyncCalendarReturns ==
    /\ run.pc = "sp_cal"
    /\ ccall.pc = "done"
    /\ WritesSettled
    /\ Continue(AfterSyncCalendar(run, ccall.result))
    /\ UNCHANGED <<visible, navOnLine, meta, studyPath, dayData, prefetchDays, envVars,
                   texts, textWrites, merge, calendar, calWrites, procVars, bootVars, prefVars>>

\* the remote calendar's schedule: the reference of a day
RefOfDay(date) == IF date % 2 = 0 THEN "r1" ELSE "r2"

\* the remote calendar answers the request of the call in progress
SyncCalendarResponds ==
    /\ ccall.pc = "net"
    /\ CalendarResponds([ok |-> TRUE,
                         calendar_items |->
                            << CalendarItem("Daf Yomi", "r1"),
                               CalendarItem("Daily Rambam", RefOfDay(ccall.date)),
                               CalendarItem("Daily Rambam (3 Chapters)",
                                            RefOfDay(ccall.date)) >>])

-----------------------------------------------------------------------------
(* Migration: src/src/services/migration.ts *)

\* a text of the legacy storage: it had been fetched as two chapters of one
\* passage each
LegacyShape == [type |-> "nested", sizes |-> <<1, 1>>]

\* const MIGRATION_KEY = "migration-v1-complete"
MIGRATION_KEY == "migration-v1-complete"

\* const paths = ["rambam3", "rambam1", "mitzvot"]
MigrationPaths == <<"rambam3", "rambam1", "mitzvot">>

\* entries of one path in the legacy storage
MaxLegacyDays == 2
\* calls of runMigrations
MaxMigrations == 2

\* a DayData of the legacy storage: ref and texts may be missing; the
\* chapter breaks were kept for r1 only
LegacyDayData ==
    {[count |-> 0]}
    \cup {[count |-> 0, ref |-> r] : r \in Refs}
    \cup {[count |-> 0, ref |-> "r1", texts |-> LegacyText("r1", LegacyShape).halakhot,
           chapterBreaks |-> LegacyText("r1", LegacyShape).chapterBreaks],
          [count |-> 0, ref |-> "r2", texts |-> LegacyText("r2", LegacyShape).halakhot]}

\* Object.entries(pathDays) of one path, in order
LegacyPathDays ==
    UNION {[1..n -> LegacyDayData] : n \in 0..MaxLegacyDays}

\* state.state.days: rambam3 has any entries, rambam1 is missing or has
\* one entry, mitzvot is missing
LegacyDaysMaps ==
    {[path \in {"rambam3"} |-> d] : d \in LegacyPathDays}
    \cup {[path \in {"rambam3", "rambam1"} |-> IF path = "rambam3" THEN d ELSE << e >>]
          : d \in LegacyPathDays, e \in LegacyDayData}

\* localStorage.getItem("rambam-app-storage"): null, or a string, given
\* by what JSON.parse makes of it: a SyntaxError, null, an object without
\* state, a state without days, or a state with days
LegacyBlobs ==
    {NULL}
    \cup {[kind |-> "string", parse |-> [ok |-> FALSE]],
          [kind |-> "string", parse |-> [ok |-> TRUE, value |-> NULL]],
          [kind |-> "string", parse |-> [ok |-> TRUE, value |-> [version |-> 0]]],
          [kind |-> "string",
           parse |-> [ok |-> TRUE, value |-> [version |-> 0, state |-> [studyPath |-> "rambam3"]]]]}
    \cup {[kind |-> "string",
           parse |-> [ok |-> TRUE, value |-> [version |-> 0, state |-> [days |-> d]]]]
          : d \in LegacyDaysMaps}

\* written collects, in order, the references the run has put into texts,
\* failed the references of which a save was rejected
IdleMig ==
    [pc |-> "idle", runs |-> 0, p |-> 1, i |-> 1, days |-> NULL,
     migratedRefs |-> {}, migratedCount |-> 0, written |-> <<>>, failed |-> {},
     result |-> NULL, outcome |-> ""]

\* as hasMigrated, for a flag that is never found
hasMigratedNever(migrated) == FALSE

\* lines 18-21: hasMigrated, migrated === true
hasMigrated(migrated) == migrated = [value |-> TRUE]

\* line 64: !state?.state?.days
NoDays(value) ==
    \/ value = NULL
    \/ "state" \notin DOMAIN value
    \/ "days" \notin DOMAIN value.state

\* as SkipDay, without the set of migrated references
SkipDayAnyRef(day, migratedRefs) ==
    \/ "texts" \notin DOMAIN day
    \/ "ref" \notin DOMAIN day

\* line 84: !dayData.texts || !dayData.ref || migratedRefs.has(dayData.ref)
SkipDay(day, migratedRefs) ==
    \/ "texts" \notin DOMAIN day
    \/ "ref" \notin DOMAIN day
    \/ day.ref \in migratedRefs

\* lines 76-86: the position of the next entry that is saved, from path
\* p and entry i on; past the last path when there is none
RECURSIVE NextToMigrate(_, _, _, _)
NextToMigrate(days, p, i, migratedRefs) ==
    IF p > Len(MigrationPaths) THEN <<p, 1>>
    ELSE LET path == MigrationPaths[p]
         IN  IF path \notin DOMAIN days
             THEN NextToMigrate(days, p + 1, 1, migratedRefs)
             ELSE IF i > Len(days[path])
             THEN NextToMigrate(days, p + 1, 1, migratedRefs)
             ELSE IF SkipDay(days[path][i], migratedRefs)
             THEN NextToMigrate(days, p, i + 1, migratedRefs)
             ELSE <<p, i>>

\* lines 89-93: saveTextToDB(dayData.ref, dayData.texts, dayData.chapterBreaks || [])
MigratedText(day) ==
    [ref |-> day.ref,
     halakhot |-> day.texts,
     chapterBreaks |-> IF "chapterBreaks" \in DOMAIN day
                       THEN day.chapterBreaks ELSE <<>>,
     fetchedAt |-> now]

\* as RunMigrationsCatch, without the try
RunMigrationsRethrows(m, message) ==
    [m EXCEPT !.pc = "done", !.runs = @ + 1,
              !.result = Failure(message), !.outcome = "threw"]

\* lines 113-120: runMigrations catches what migrateTextsToIndexedDB throws
RunMigrationsCatch(m, message) ==
    [m EXCEPT !.pc = "done", !.runs = @ + 1,
              !.result = Failure(message), !.outcome = "returned"]

\* migrateTextsToIndexedDB returns n and runMigrations returns
MigrationReturns(m, n) ==
    [m EXCEPT !.pc = "done", !.runs = @ + 1,
              !.result = [value |-> n], !.outcome = "returned"]

\* lines 78-102: the loop goes on from path p, entry i
ContinueMigration(m, p, i) ==
    LET next == NextToMigrate(m.days, p, i, m.migratedRefs)
    IN  IF next[1] > Len(MigrationPaths)
        THEN [m EXCEPT !.pc = "mark", !.p = next[1], !.i = next[2]]
        ELSE [m EXCEPT !.pc = "save", !.p = next[1], !.i = next[2]]

\* lines 41-44 and 113-115: runMigrations is called, getMeta is issued
BeginMigration(m) ==
    [IdleMig EXCEPT !.pc = "hasMigrated", !.runs = m.runs]

\* as AfterHasMigrated, with a blob that is not JSON treated as an error
AfterHasMigratedStrict(m, migrated, stored) ==
    IF migrated THEN MigrationReturns(m, 0)
    ELSE IF stored = NULL THEN [m EXCEPT !.pc = "mark"]
    ELSE IF ~stored.parse.ok THEN RunMigrationsCatch(m, "invalid JSON")
    ELSE IF NoDays(stored.parse.value) THEN [m EXCEPT !.pc = "mark"]
    ELSE ContinueMigration([m EXCEPT !.days = stored.parse.value.state.days], 1, 1)

\* lines 43-76: hasMigrated has returned
AfterHasMigrated(m, migrated, stored) ==
    IF migrated THEN MigrationReturns(m, 0)
    ELSE IF stored = NULL THEN [m EXCEPT !.pc = "mark"]
    ELSE IF ~stored.parse.ok THEN [m EXCEPT !.pc = "mark"]
    ELSE IF NoDays(stored.parse.value) THEN [m EXCEPT !.pc = "mark"]
    ELSE ContinueMigration([m EXCEPT !.days = stored.parse.value.state.days], 1, 1)

\* lines 94-95: saveTextToDB has resolved
AfterSaveText(m, day) ==
    ContinueMigration([m EXCEPT !.migratedRefs = @ \cup {day.ref},
                                !.migratedCount = @ + 1,
                                !.written = Append(@, day.ref)],
                      m.p, m.i + 1)

\* lines 96-98: saveTextToDB has rejected; the error is logged
AfterSaveTextFailed(m) ==
    ContinueMigration([m EXCEPT !.failed = @ \cup {m.days[MigrationPaths[m.p]][m.i].ref}],
                      m.p, m.i + 1)

\* the parts of the startup state that migration leaves alone
MigrationFrame ==
    UNCHANGED <<initialized, boot, done, bookmarks, legacy, state, lastOnline,
                mounted, envVars, textWrites, calls, merge, calVars, procVars,
                prefVars, syncInProgress, active, run, visible, navOnLine,
                studyPath, dayData, prefetchDays>>

\* runMigrations() is called on its own
StartRunMigrations ==
    /\ mig.pc = "idle"
    /\ boot.pc = "idle"
    /\ mig.runs < MaxMigrations
    /\ mig' = BeginMigration(mig)
    /\ UNCHANGED <<texts, meta>>
    /\ MigrationFrame

\* getMeta(MIGRATION_KEY) resolves
HasMigratedReturns ==
    /\ mig.pc = "hasMigrated"
    /\ mig' = AfterHasMigrated(mig, hasMigrated(meta[MIGRATION_KEY]), legacy)
    /\ UNCHANGED <<texts, meta>>
    /\ MigrationFrame

\* getMeta(MIGRATION_KEY) rejects with storage-unavailable
HasMigratedFails ==
    /\ mig.pc = "hasMigrated"
    /\ mig' = RunMigrationsCatch(mig, "storage unavailable")
    /\ UNCHANGED <<texts, meta>>
    /\ MigrationFrame

\* saveTextToDB resolves: the put has landed
MigrationSaveLands ==
    /\ mig.pc = "save"
    /\ LET day == mig.days[MigrationPaths[mig.p]][mig.i]
       IN  /\ texts' = [texts EXCEPT ![day.ref] = MigratedText(day)]
           /\ mig' = AfterSaveText(mig, day)
    /\ UNCHANGED meta
    /\ MigrationFrame

\* saveTextToDB rejects with storage-unavailable
MigrationSaveFails ==
    /\ mig.pc = "save"
    /\ mig' = AfterSaveTextFailed(mig)
    /\ UNCHANGED <<texts, meta>>
    /\ MigrationFrame

\* lines 26-28 and 102-106: setMeta(MIGRATION_KEY, true) resolves
MarkMigrationCompleteLands ==
    /\ mig.pc = "mark"
    /\ meta' = [meta EXCEPT ![MIGRATION_KEY] = [value |-> TRUE]]
    /\ mig' = MigrationReturns(mig, mig.migratedCount)
    /\ UNCHANGED texts
    /\ MigrationFrame

\* setMeta(MIGRATION_KEY, true) rejects with storage-unavailable
MarkMigrationCompleteFails ==
    /\ mig.pc = "mark"
    /\ mig' = RunMigrationsCatch(mig, "storage unavailable")
    /\ UNCHANGED <<texts, meta>>
    /\ MigrationFrame

\* the caller of runMigrations goes on
ReturnRunMigrations ==
    /\ mig.pc = "done"
    /\ boot.pc = "idle"
    /\ mig' = [mig EXCEPT !.pc = "idle"]
    /\ UNCHANGED <<texts, meta>>
    /\ MigrationFrame

-----------------------------------------------------------------------------
(* Startup: initializeOffline, src/unnamed/part_007 lines 48-113 *)

\* line 81: clearStaleData(30)
RETENTION_DAYS == 30

\* the passage indices of a day's Completion Records
DayIndices == {0, 1}

\* a day fetched before the retention window began, and yesterday
OldDay == 0 - (RETENTION_DAYS + 1)
Yesterday == 0 - 1

\* the keys of the calendar collection at startup
StartupCalendarKeys == SyncCalendarKeys \cup ({"rambam3"} \X {OldDay, Yesterday})

\* recalled: a later call found the flag set; deletedKeys, deletedRefs: what
\* the sweep has deleted; started: startBackgroundSync was called
IdleBoot ==
    [pc |-> "idle", recalled |-> FALSE, cleared |-> 0, cleanedDays |-> 0,
     deletedKeys |-> {}, deletedRefs |-> {}, started |-> FALSE, outcome |-> ""]

\* every passage of the day has a Completion Record
Completed(key) == \A idx \in DayIndices : <<key[1], key[2], idx>> \in done

\* a passage of the day is bookmarked
Bookmarked(key) == \E idx \in DayIndices : <<key[1], key[2], idx>> \in bookmarks

\* database.ts clearStaleData(maxAgeDays): the entries it deletes are the
\* ones fetched more than maxAgeDays ago
StaleKeys(maxAgeDays) ==
    {k \in DOMAIN calendar : calendar[k] # NULL /\ isStale(calendar[k].fetchedAt, maxAgeDays)}
StaleRefs(maxAgeDays) ==
    {r \in DOMAIN texts : texts[r] # NULL /\ isStale(texts[r].fetchedAt, maxAgeDays)}

\* database.ts cleanupCompletedDays(done, bookmarks, activePaths, daysAhead):
\* the days it may delete are the completed days without a bookmark
CleanableKeys ==
    {k \in DOMAIN calendar :
        calendar[k] # NULL /\ k[1] = studyPath /\ Completed(k) /\ ~Bookmarked(k)}

\* the references of the entries of a set of days
RefsOfKeys(keys) == {calendar[k].ref : k \in keys}

\* as InitializeCatch, without the try
InitializeRethrows(b) ==
    [b EXCEPT !.pc = "done", !.outcome = "threw"]

\* as InitializeCatch, with background sync started after the catch
InitializeCatchStartsSync(b) ==
    [b EXCEPT !.pc = "done", !.outcome = "returned", !.started = TRUE]

\* lines 109-112: the catch of initializeOffline logs and returns
InitializeCatch(b) ==
    [b EXCEPT !.pc = "done", !.outcome = "returned"]

\* the parts of the state that initializeOffline leaves alone
StartupFrame ==
    UNCHANGED <<done, bookmarks, legacy, state, lastOnline, mounted, envVars,
                textWrites, calls, merge, calWrites, ccall, procVars, prefVars,
                syncInProgress, active, run, visible, navOnLine, studyPath,
                prefetchDays>>

\* as InitializeOffline, without the test of the initialized flag
InitializeOfflineUnguarded ==
    /\ ~boot.recalled
    /\ IF initialized
       THEN /\ boot' = [boot EXCEPT !.recalled = TRUE, !.pc = "migrate"]
            /\ mig' = BeginMigration(mig)
            /\ UNCHANGED initialized
       ELSE /\ boot.pc = "idle"
            /\ mig.pc = "idle"
            /\ initialized' = TRUE
            /\ boot' = [boot EXCEPT !.pc = "migrate"]
            /\ mig' = BeginMigration(mig)
    /\ UNCHANGED <<texts, calendar, meta, dayData>>
    /\ StartupFrame

\* lines 69-78: initializeOffline() is called
InitializeOffline ==
    /\ ~boot.recalled
    /\ IF initialized
       THEN /\ boot' = [boot EXCEPT !.recalled = TRUE]
            /\ UNCHANGED <<initialized, mig>>
       ELSE /\ boot.pc = "idle"
            /\ mig.pc = "idle"
            /\ initialized' = TRUE
            /\ boot' = [boot EXCEPT !.pc = "migrate"]
            /\ mig' = BeginMigration(mig)
    /\ UNCHANGED <<texts, calendar, meta, dayData>>
    /\ StartupFrame

\* lines 78-81: runMigrations has settled; clearStaleData(30) is issued
AfterRunMigrations ==
    /\ boot.pc = "migrate"
    /\ mig.pc = "done"
    /\ mig' = [mig EXCEPT !.pc = "idle"]
    /\ boot' = IF mig.outcome = "threw" THEN InitializeCatch(boot)
               ELSE [boot EXCEPT !.pc = "clear"]
    /\ UNCHANGED <<initialized, texts, calendar, meta, dayData>>
    /\ StartupFrame

\* lines 81-95: clearStaleData resolves; cleanupCompletedDays is issued
\* with the done, bookmarks, activePaths and daysAhead of the app store
ClearStaleDataResolves ==
    /\ boot.pc = "clear"
    /\ LET keys == StaleKeys(RETENTION_DAYS)
           refs == StaleRefs(RETENTION_DAYS)
       IN  /\ calendar' = [k \in DOMAIN calendar |-> IF k \in keys THEN NULL ELSE calendar[k]]
           /\ texts' = [r \in DOMAIN texts |-> IF r \in refs THEN NULL ELSE texts[r]]
           /\ boot' = [boot EXCEPT !.pc = "cleanup",
                                   !.cleared = Cardinality(keys) + Cardinality(refs),
                                   !.deletedKeys = @ \cup keys,
                                   !.deletedRefs = @ \cup refs]
    /\ UNCHANGED <<initialized, mig, meta, dayData>>
    /\ StartupFrame

\* clearStaleData rejects with storage-unavailable
ClearStaleDataFails ==
    /\ boot.pc = "clear"
    /\ boot' = InitializeCatch(boot)
    /\ UNCHANGED <<initialized, mig, texts, calendar, meta, dayData>>
    /\ StartupFrame

\* lines 89-102: cleanupCompletedDays resolves; cleanupOldDays removes the
\* days from the app store when any was deleted; getDatabaseStats is issued
CleanupCompletedDaysResolves(keys) ==
    /\ boot.pc = "cleanup"
    /\ keys \subseteq CleanableKeys
    /\ LET refs == RefsOfKeys(keys)
       IN  /\ calendar' = [k \in DOMAIN calendar |-> IF k \in keys THEN NULL ELSE calendar[k]]
           /\ texts' = [r \in DOMAIN texts |-> IF r \in refs THEN NULL ELSE texts[r]]
           /\ boot' = [boot EXCEPT !.pc = "stats",
                                   !.cleanedDays = Cardinality(keys),
                                   !.deletedKeys = @ \cup keys,
                                   !.deletedRefs = @ \cup {r \in refs : texts[r] # NULL}]
    /\ dayData' = {d \in dayData : <<d.path, d.date>> \notin keys}
    /\ UNCHANGED <<initialized, mig, meta>>
    /\ StartupFrame

\* cleanupCompletedDays rejects with storage-unavailable
CleanupCompletedDaysFails ==
    /\ boot.pc = "cleanup"
    /\ boot' = InitializeCatch(boot)
    /\ UNCHANGED <<initialized, mig, texts, calendar, meta, dayData>>
    /\ StartupFrame

\* lines 102-109: getDatabaseStats resolves; startBackgroundSync() is
\* called and initializeOffline returns
GetDatabaseStatsResolves ==
    /\ boot.pc = "stats"
    /\ boot' = [boot EXCEPT !.pc = "done", !.started = TRUE, !.outcome = "returned"]
    /\ UNCHANGED <<initialized, mig, texts, calendar, meta, dayData>>
    /\ StartupFrame

\* getDatabaseStats rejects with storage-unavailable
GetDatabaseStatsFails ==
    /\ boot.pc = "stats"
    /\ boot' = InitializeCatch(boot)
    /\ UNCHANGED <<initialized, mig, texts, calendar, meta, dayData>>
    /\ StartupFrame

-----------------------------------------------------------------------------
(* The offline store: src/src/stores/offlineStore.ts, and the status hook
   useOfflineStatus, src/unnamed/part_003 lines 208-250 *)

\* steps of the clock while the status hook is observed
MaxClockSteps == 3

\* new Date().toISOString() at time t
ToISOString(t) == [kind |-> "string", iso |-> t]

\* lines 31-35: setOnline
setOnline(s) == [state |-> "online", lastOnline |-> ToISOString(now)]

\* as setSystemOffline, with the timestamp cleared
setSystemOfflineClearing(s) == [state |-> "system-offline", lastOnline |-> NULL]

\* lines 37-42: setSystemOffline
setSystemOffline(s) == [state |-> "system-offline", lastOnline |-> s.lastOnline]

\* lines 44-48: setUserOffline
setUserOffline(s) == [state |-> "user-offline", lastOnline |-> s.lastOnline]

\* the store as a record, and zustand's set
OfflineStore == [state |-> state, lastOnline |-> lastOnline]
Set(s) ==
    /\ state' = s.state
    /\ lastOnline' = s.lastOnline

\* what the hook and the store leave alone
ConnectivityFrame ==
    UNCHANGED <<initialized, boot, done, bookmarks, legacy, mig, online, remote,
                textVars, calVars, procVars, prefVars, syncInProgress, active, run,
                visible, meta, studyPath, dayData, prefetchDays>>

\* part_003 lines 215-236: the effect of the hook runs on mount: the state
\* is set from navigator.onLine and the listeners are attached
MountHook ==
    /\ ~mounted
    /\ mounted' = TRUE
    /\ Set(IF navOnLine THEN setOnline(OfflineStore) ELSE setSystemOffline(OfflineStore))
    /\ UNCHANGED <<navOnLine, now, ticks>>
    /\ ConnectivityFrame

\* part_003 lines 237-240: the cleanup of the effect removes the listeners
UnmountHook ==
    /\ mounted
    /\ mounted' = FALSE
    /\ UNCHANGED <<state, lastOnline, navOnLine, now, ticks>>
    /\ ConnectivityFrame

\* the browser's online event; part_003 lines 225-227: handleOnline
BrowserOnline ==
    /\ ~navOnLine
    /\ navOnLine' = TRUE
    /\ IF mounted THEN Set(setOnline(OfflineStore)) ELSE UNCHANGED <<state, lastOnline>>
    /\ UNCHANGED <<mounted, now, ticks>>
    /\ ConnectivityFrame

\* the browser's offline event; part_003 lines 229-231: handleOffline
BrowserOffline ==
    /\ navOnLine
    /\ navOnLine' = FALSE
    /\ IF mounted THEN Set(setSystemOffline(OfflineStore)) ELSE UNCHANGED <<state, lastOnline>>
    /\ UNCHANGED <<mounted, now, ticks>>
    /\ ConnectivityFrame

\* the user switches the app to offline: setUserOffline()
UserGoesOffline ==
    /\ state # "user-offline"
    /\ Set(setUserOffline(OfflineStore))
    /\ UNCHANGED <<mounted, navOnLine, now, ticks>>
    /\ ConnectivityFrame

\* the user switches the app back: the state is set from navigator.onLine
UserLeavesOffline ==
    /\ state = "user-offline"
    /\ Set(IF navOnLine THEN setOnline(OfflineStore) ELSE setSystemOffline(OfflineStore))
    /\ UNCHANGED <<mounted, navOnLine, now, ticks>>
    /\ ConnectivityFrame

\* time passes
ClockAdvances ==
    /\ ticks < MaxClockSteps
    /\ ticks' = ticks + 1
    /\ now' = now + 1
    /\ UNCHANGED <<state, lastOnline, mounted, navOnLine>>
    /\ ConnectivityFrame

-----------------------------------------------------------------------------
(* Initial states *)

\* what the remote text API holds for the references: r1 spans three
\* chapters, the second of them empty; r2 is a flat list without passages
RemoteChoices ==
    {[r \in Refs |-> IF r = "r1" THEN [type |-> "nested", sizes |-> <<1, 0, 1>>]
                                 ELSE [type |-> "array", sizes |-> <<0>>]]}

EnvInit ==
    /\ now = 0
    /\ ticks = 0
    /\ online \in BOOLEAN
    /\ remote \in RemoteChoices

TextInit ==
    /\ texts = [r \in Refs |-> IF r = "r1" THEN LegacyText(r, LegacyShape) ELSE NULL]
    /\ textWrites = {}
    /\ calls = [c \in Slots |-> IdleCall]
    /\ merge = IdleMerge

CalendarInit ==
    /\ calendar = [k \in CalendarKeys |-> NULL]
    /\ calWrites = {}
    /\ ccall = IdleCalendarCall

ProcIdle ==
    /\ heData = NULL
    /\ enData = NULL
    /\ processed = NULL

\* lines 19-21: useState("idle"), useState(null), useState(null)
IdleButton == [state |-> "idle", progress |-> NULL, errorMessage |-> NULL]

PrefetchIdle ==
    /\ pcall = IdlePrefetch
    /\ button = IdleButton
    /\ weekPrefetches = 0
    /\ resetTimers = 0
    /\ clicks = 0

\* background sync has not been started; the tab is visible
SyncIdle ==
    /\ syncInProgress = FALSE
    /\ active = 0
    /\ run = IdleRun
    /\ visible = TRUE
    /\ navOnLine = TRUE
    /\ meta = [k \in {PREFETCH_KEY, MIGRATION_KEY} |-> NULL]
    /\ studyPath = "rambam3"
    /\ dayData = {}
    /\ prefetchDays = {}

\* initializeOffline has not been called, there is no legacy storage, and
\* the offline store is as created
BootIdle ==
    /\ initialized = FALSE
    /\ boot = IdleBoot
    /\ done = {}
    /\ bookmarks = {}
    /\ legacy = NULL
    /\ mig = IdleMig
    /\ state = "online"
    /\ lastOnline = NULL
    /\ mounted = FALSE

Init ==
    /\ EnvInit /\ TextInit /\ CalendarInit /\ ProcIdle /\ PrefetchIdle
    /\ SyncIdle /\ BootIdle

Next ==
    \/ \E r \in Refs : StartFetchHalakhot(r)
    \/ \E c \in Slots : GetTextFromDB(c)
    \/ \E c \in Slots : ProbeReachable(c)
    \/ \E c \in Slots, heOk \in BOOLEAN, enOk \in BOOLEAN : NetworkSettles(c, heOk, enOk)
    \/ \E c \in Slots : ReturnFetchHalakhot(c)
    \/ \E refs \in RefLists(MaxRefs) : StartFetchMultipleHalakhot(refs)
    \/ SingleSettles
    \/ AllSettle
    \/ ReturnFetchMultipleHalakhot
    \/ \E w \in textWrites : SaveTextLands(w)
    \/ \E w \in textWrites : SaveTextFails(w)
    \/ Tick
    \/ NetworkChanges

Spec == Init /\ [][Next]_vars

NextCalendar ==
    \/ \E d \in Dates, p \in Paths : StartFetchCalendar(d, p)
    \/ GetCalendarFromDB
    \/ ProbeCalendar
    \/ CalendarRequestFails
    \/ \E res \in CalendarResponses : CalendarResponds(res)
    \/ ReturnFetchCalendar
    \/ \E w \in calWrites : SaveCalendarLands(w)
    \/ \E w \in calWrites : SaveCalendarFails(w)
    \/ Tick
    \/ NetworkChanges

SpecCalendar == Init /\ [][NextCalendar]_vars

\* the three operations of the fetcher that use the network, one at a time
NextFetcher ==
    \/ \E r \in Refs : StartFetchHalakhot(r) /\ FetcherQuiet
    \/ GetTextFromDB(1)
    \/ ProbeReachable(1)
    \/ \E heOk \in BOOLEAN, enOk \in BOOLEAN : NetworkSettles(1, heOk, enOk)
    \/ ReturnFetchHalakhot(1)
    \/ \E w \in textWrites : SaveTextLands(w)
    \/ \E w \in textWrites : SaveTextFails(w)
    \/ \E r \in Refs : StartPrefetchText(r)
    \/ PrefetchGetTextFromDB
    \/ \E heOk \in BOOLEAN, enOk \in BOOLEAN : PrefetchNetworkSettles(heOk, enOk)
    \/ PrefetchSaveLands
    \/ PrefetchSaveFails
    \/ ReturnPrefetchText
    \/ \E p \in Paths : StartFetchCalendar("d1", p) /\ FetcherQuiet
    \/ GetCalendarFromDB
    \/ ProbeCalendar
    \/ CalendarRequestFails
    \/ \E res \in CalendarResponses : CalendarResponds(res)
    \/ ReturnFetchCalendar
    \/ \E w \in calWrites : SaveCalendarLands(w)
    \/ \E w \in calWrites : SaveCalendarFails(w)
    \/ Tick /\ FetcherQuiet
    \/ NetworkChanges

SpecFetcher == Init /\ [][NextFetcher]_vars

\* background sync has been started on an empty calendar collection
InitSync ==
    /\ EnvInit
    /\ TextInit
    /\ calendar = [k \in SyncCalendarKeys |-> NULL]
    /\ calWrites = {}
    /\ ccall = IdleCalendarCall
    /\ ProcIdle
    /\ PrefetchIdle
    /\ SyncIdle
    /\ BootIdle

NextSync ==
    \/ TimerFires
    \/ TriggerSync
    \/ BecomesVisible
    \/ BecomesHidden
    \/ GoesOnline
    \/ GoesOffline
    \/ ReachabilityChanges
    \/ GetMetaReturns
    \/ PrefetchCalendarReturns
    \/ PrefetchTextReturns
    \/ \E answer \in {"error", "complete"} : HebrewDateSettles(answer)
    \/ SetMetaLands
    \/ SetMetaFails
    \/ SyncReadReturns
    \/ SyncCalendarReturns
    \/ GetCalendarFromDB
    \/ ProbeCalendar
    \/ CalendarRequestFails
    \/ SyncCalendarResponds
    \/ GetTextFromDB(1)
    \/ ProbeReachable(1)
    \/ \E ok \in BOOLEAN : NetworkSettles(1, ok, ok)
    \/ \E w \in textWrites : SaveTextLands(w)
    \/ \E w \in textWrites : SaveTextFails(w)
    \/ \E w \in calWrites : SaveCalendarLands(w)
    \/ \E w \in calWrites : SaveCalendarFails(w)

SpecSync == InitSync /\ [][NextSync]_vars

\* the entry saveCalendarToDB wrote when the remote calendar answered ref
EntryOf(path, date, ref) ==
    StoredCalendar(path, date,
                   [he |-> Display("he", ref), en |-> Display("en", ref), ref |-> ref,
                    heDate |-> computeHebrewDate(date).heDate,
                    enDate |-> computeHebrewDate(date).enDate])

\* background sync has been started on a calendar collection that holds
\* today's entry of the active path, cached today; the provider has
\* corrected the reference of the day since
InitSyncCorrected ==
    /\ EnvInit
    /\ TextInit
    /\ calendar = [k \in SyncCalendarKeys |->
                     IF k = <<"rambam3", 0>> THEN EntryOf("rambam3", 0, "r2") ELSE NULL]
    /\ calWrites = {}
    /\ ccall = IdleCalendarCall
    /\ ProcIdle
    /\ PrefetchIdle
    /\ SyncIdle
    /\ BootIdle

\* a boot with any legacy storage and an empty texts collection
InitMigration ==
    /\ EnvInit
    /\ texts = [r \in Refs |-> NULL]
    /\ textWrites = {}
    /\ calls = [c \in Slots |-> IdleCall]
    /\ merge = IdleMerge
    /\ CalendarInit
    /\ ProcIdle
    /\ PrefetchIdle
    /\ SyncIdle
    /\ initialized = FALSE
    /\ boot = IdleBoot
    /\ done = {}
    /\ bookmarks = {}
    /\ legacy \in LegacyBlobs
    /\ mig = IdleMig
    /\ state = "online"
    /\ lastOnline = NULL
    /\ mounted = FALSE

NextMigration ==
    \/ StartRunMigrations
    \/ HasMigratedReturns
    \/ HasMigratedFails
    \/ MigrationSaveLands
    \/ MigrationSaveFails
    \/ MarkMigrationCompleteLands
    \/ MarkMigrationCompleteFails
    \/ ReturnRunMigrations

SpecMigration == InitMigration /\ [][NextMigration]_vars

\* a text fetched on a day
TextFetchedOn(ref, day) ==
    [LegacyText(ref, LegacyShape) EXCEPT !.fetchedAt = day]

\* the legacy storage of the startup: none, not JSON, or two days of one
\* reference
StartupBlobs ==
    {NULL,
     [kind |-> "string", parse |-> [ok |-> FALSE]],
     [kind |-> "string",
      parse |-> [ok |-> TRUE,
                 value |-> [version |-> 0,
                            state |-> [days |-> [path \in {"rambam3"} |->
                               << [count |-> 0, ref |-> "r2",
                                   texts |-> LegacyText("r2", LegacyShape).halakhot],
                                  [count |-> 0, ref |-> "r2",
                                   texts |-> LegacyText("r2", LegacyShape).halakhot] >>]]]]]}

\* the Completion Records and bookmarks of the old day and of yesterday
StartupDone ==
    {{<<"rambam3", OldDay, idx>> : idx \in ids} \cup y :
        ids \in SUBSET DayIndices,
        y \in {{}, {<<"rambam3", Yesterday, idx>> : idx \in DayIndices}}}
StartupBookmarks ==
    {{}, {<<"rambam3", OldDay, 0>>}, {<<"rambam3", Yesterday, 1>>}}

\* the app is started on day 0: the Store holds the day of r1, fetched 31
\* days ago, and yesterday's, fetched yesterday
StartupState ==
    /\ now = 0 /\ ticks = 0
    /\ remote \in RemoteChoices
    /\ texts = [r \in Refs |-> IF r = "r1" THEN TextFetchedOn(r, OldDay)
                                ELSE TextFetchedOn(r, Yesterday)]
    /\ textWrites = {}
    /\ calls = [c \in Slots |-> IdleCall]
    /\ merge = IdleMerge
    /\ calendar = [k \in StartupCalendarKeys |->
                     IF k = <<"rambam3", OldDay>>
                     THEN [EntryOf("rambam3", OldDay, "r1") EXCEPT !.fetchedAt = OldDay]
                     ELSE IF k = <<"rambam3", Yesterday>>
                     THEN [EntryOf("rambam3", Yesterday, "r2") EXCEPT !.fetchedAt = Yesterday]
                     ELSE NULL]
    /\ calWrites = {}
    /\ ccall = IdleCalendarCall
    /\ ProcIdle
    /\ PrefetchIdle
    /\ SyncIdle
    /\ initialized = FALSE
    /\ boot = IdleBoot
    /\ done \in StartupDone
    /\ bookmarks \in StartupBookmarks
    /\ legacy \in StartupBlobs
    /\ mig = IdleMig
    /\ state = "online"
    /\ lastOnline = NULL
    /\ mounted = FALSE

InitStartup == StartupState /\ online = TRUE

\* initializeOffline, and background sync once it has been started
NextStartup ==
    \/ InitializeOffline
    \/ HasMigratedReturns
    \/ HasMigratedFails
    \/ MigrationSaveLands
    \/ MigrationSaveFails
    \/ MarkMigrationCompleteLands
    \/ MarkMigrationCompleteFails
    \/ AfterRunMigrations
    \/ ClearStaleDataResolves
    \/ ClearStaleDataFails
    \/ \E keys \in SUBSET CleanableKeys : CleanupCompletedDaysResolves(keys)
    \/ CleanupCompletedDaysFails
    \/ GetDatabaseStatsResolves
    \/ GetDatabaseStatsFails

SpecStartup == InitStartup /\ [][NextStartup]_vars

\* the steps of a sync run when the Store and the network answer
SyncRunSteps ==
    \/ GetMetaReturns
    \/ PrefetchCalendarReturns
    \/ PrefetchTextReturns
    \/ HebrewDateSettles("complete")
    \/ SetMetaLands
    \/ SyncReadReturns
    \/ SyncCalendarReturns
    \/ GetCalendarFromDB
    \/ ProbeCalendar
    \/ SyncCalendarResponds
    \/ GetTextFromDB(1)
    \/ ProbeReachable(1)
    \/ NetworkSettles(1, TRUE, TRUE)
    \/ \E w \in textWrites : SaveTextLands(w)
    \/ \E w \in calWrites : SaveCalendarLands(w)

\* the steps of initializeOffline when the Store answers
StartupSteps ==
    \/ InitializeOffline
    \/ HasMigratedReturns
    \/ MigrationSaveLands
    \/ MarkMigrationCompleteLands
    \/ AfterRunMigrations
    \/ ClearStaleDataResolves
    \/ \E keys \in SUBSET CleanableKeys : CleanupCompletedDaysResolves(keys)
    \/ GetDatabaseStatsResolves

\* the app from its start on: initializeOffline, then the triggers of
\* background sync and its runs
NextApp ==
    \/ StartupSteps
    \/ boot.started /\ TimerFires
    \/ boot.started /\ TriggerSync
    \/ boot.started /\ BecomesVisible
    \/ boot.started /\ BecomesHidden
    \/ boot.started /\ GoesOnline
    \/ boot.started /\ GoesOffline
    \/ SyncRunSteps

\* the app is started with legacy storage, both days completed and no
\* bookmark
InitApp ==
    /\ InitStartup
    /\ done = {<<"rambam3", d, idx>> : d \in {OldDay, Yesterday}, idx \in DayIndices}
    /\ bookmarks = {}
    /\ legacy # NULL
    /\ legacy.parse.ok

SpecApp == InitApp /\ [][NextApp]_vars

\* the app is started with any legacy storage while the network is down
InitFailures ==
    /\ StartupState
    /\ online = FALSE
    /\ done = {<<"rambam3", d, idx>> : d \in {OldDay, Yesterday}, idx \in DayIndices}
    /\ bookmarks = {}

\* initializeOffline and then the runs of background sync, with the network
\* down and every failure of the Store
NextFailures ==
    \/ NextStartup
    \/ boot.started /\ TriggerSync
    \/ GetMetaReturns
    \/ GetMetaFails
    \/ PrefetchCalendarReturns
    \/ SetMetaLands
    \/ SetMetaFails
    \/ SyncReadReturns
    \/ SyncReadFails
    \/ SyncCalendarReturns
    \/ GetCalendarFromDB
    \/ ProbeCalendar

SpecFailures == InitFailures /\ [][NextFailures]_vars

\* background sync over several days: the timer fires, days pass, the
\* network stays as it is and answers when it is reachable
NextSyncDays ==
    \/ TimerFires
    \/ GetMetaReturns
    \/ PrefetchCalendarReturns
    \/ PrefetchTextReturns
    \/ \E answer \in {"error", "complete"} : HebrewDateSettles(answer)
    \/ SetMetaLands
    \/ SetMetaFails
    \/ SyncReadReturns
    \/ SyncCalendarReturns
    \/ GetCalendarFromDB
    \/ ProbeCalendar
    \/ SyncCalendarResponds
    \/ GetTextFromDB(1)
    \/ ProbeReachable(1)
    \/ NetworkSettles(1, TRUE, TRUE)
    \/ \E w \in textWrites : SaveTextLands(w)
    \/ \E w \in calWrites : SaveCalendarLands(w)
    \/ Tick

SpecSyncDays == InitSync /\ [][NextSyncDays]_vars

\* the runs of one day, with every answer of the remote converter
NextPrefetch ==
    \/ TimerFires
    \/ GetMetaReturns
    \/ PrefetchCalendarReturns
    \/ PrefetchTextReturns
    \/ \E answer \in ConverterAnswers : HebrewDateSettles(answer)
    \/ SetMetaLands
    \/ SetMetaFails
    \/ SyncReadReturns
    \/ SyncCalendarReturns
    \/ GetCalendarFromDB
    \/ ProbeCalendar
    \/ SyncCalendarResponds
    \/ GetTextFromDB(1)
    \/ ProbeReachable(1)
    \/ \E ok \in BOOLEAN : NetworkSettles(1, ok, ok)
    \/ \E w \in textWrites : SaveTextLands(w)
    \/ \E w \in calWrites : SaveCalendarLands(w)

SpecPrefetch == InitSync /\ [][NextPrefetch]_vars

\* every await of a sync run settles, one way or the other: the Store
\* answers or rejects a read, the network answers when it is reachable and
\* fetchCalendar fails when it is not, a text or a date request fails
RunSettles ==
    \/ GetMetaReturns
    \/ GetMetaFails
    \/ PrefetchCalendarReturns
    \/ PrefetchTextReturns
    \/ \E answer \in {"error", "complete"} : HebrewDateSettles(answer)
    \/ SetMetaLands
    \/ SetMetaFails
    \/ SyncReadReturns
    \/ SyncReadFails
    \/ SyncCalendarReturns
    \/ GetCalendarFromDB
    \/ ProbeCalendar
    \/ SyncCalendarResponds
    \/ GetTextFromDB(1)
    \/ ProbeReachable(1)
    \/ \E ok \in BOOLEAN : NetworkSettles(1, ok, ok)
    \/ \E w \in textWrites : SaveTextLands(w)
    \/ \E w \in calWrites : SaveCalendarLands(w)

\* the timer of background sync and the runs it starts
NextRuns ==
    \/ TimerFires
    \/ RunSettles

\* a request to the Store or to the network that is pending settles, and
\* the event loop then runs the continuation that awaits it
SpecRuns == InitSync /\ [][NextRuns]_vars /\ WF_vars(RunSettles)

-----------------------------------------------------------------------------
(* Properties of fetchHalakhot (getText) *)

\* the texts of a shape's passages in language lang, in reading order
RECURSIVE FlatTexts(_, _, _)
FlatTexts(lang, shape, c) ==
    IF shape.type = "string" THEN << Str(lang, 1, 1) >>
    ELSE IF c > Len(shape.sizes) THEN <<>>
    ELSE [i \in 1..shape.sizes[c] |-> Str(lang, c, i)] \o FlatTexts(lang, shape, c + 1)

\* C1: a call whose read of the Store finds an entry fetched within the
\* 7-day window ends at that step: it returns the entry's passages and
\* chapter breaks, and has made no reachability probe and no network
\* request, whether the network is reachable or not.
C1_FreshEntryServedFromStore ==
    [][\A c \in Slots :
         (/\ calls[c].pc = "db"
          /\ calls'[c].pc # "db"
          /\ texts[calls[c].ref] # NULL
          /\ now - texts[calls[c].ref].fetchedAt <= TEXT_STALE_DAYS)
         => /\ calls'[c].pc = "done"
            /\ calls'[c].result.status = "ok"
            /\ calls'[c].result.halakhot = texts[calls[c].ref].halakhot
            /\ calls'[c].result.chapterBreaks = texts[calls[c].ref].chapterBreaks
            /\ calls'[c].probes = 0
            /\ calls'[c].requests = 0
            /\ UNCHANGED <<texts, textWrites>>]_vars

\* a call has returned a fresh entry while the network was not reachable
C1_Witness ==
    \E c \in Slots :
        /\ calls[c].pc = "done"
        /\ calls[c].hit = "fresh"
        /\ calls[c].result.status = "ok"
        /\ Len(calls[c].result.halakhot) > 0
        /\ ~online

\* C2: a call that has found no fresh entry and whose probe reports the
\* network not reachable ends at that step without a network request: it
\* returns the stale entry it read if there is one and fails with the
\* offline error otherwise, and the Store is not written.
C2_OfflineFallsBackToStale ==
    [][\A c \in Slots :
         (/\ calls[c].pc = "probe"
          /\ calls'[c].pc # "probe"
          /\ ~online)
         => /\ calls'[c].pc = "done"
            /\ calls'[c].requests = 0
            /\ IF calls[c].hit = "stale"
               THEN /\ calls'[c].result.status = "ok"
                    /\ calls'[c].result.halakhot = calls[c].cached.halakhot
                    /\ calls'[c].result.chapterBreaks = calls[c].cached.chapterBreaks
               ELSE calls'[c].result = Failure("Offline and no cached text available")
            /\ UNCHANGED <<texts, textWrites>>]_vars

\* offline, one call has returned a stale entry and another has failed for
\* want of any entry
C2_Witness ==
    \E c, d \in Slots :
        /\ calls[c].pc = "done" /\ calls[c].hit = "stale"
        /\ calls[c].probes = 1 /\ calls[c].requests = 0
        /\ calls[c].result.status = "ok"
        /\ calls[d].pc = "done" /\ calls[d].hit = "miss"
        /\ calls[d].probes = 1 /\ calls[d].requests = 0
        /\ calls[d].result = Failure("Offline and no cached text available")

\* C3: a call whose two language requests ended with exactly one failure
\* returns normally: its passages are those of the language that arrived, in
\* order, the other language is empty (he) or absent (en) on every passage,
\* and languagesLoaded tells which language arrived.
C3_OneLanguageIsEnough ==
    \A c \in Slots :
        (/\ calls[c].pc = "done"
         /\ calls[c].requests = 2
         /\ calls[c].heOk # calls[c].enOk)
        => LET r == calls[c].result
               h == r.halakhot
               lang == IF calls[c].heOk THEN "he" ELSE "en"
               expected == FlatTexts(lang, remote[calls[c].ref], 1)
           IN  /\ r.status = "ok"
               /\ r.languagesLoaded = [he |-> calls[c].heOk, en |-> calls[c].enOk]
               /\ Len(h) = Len(expected)
               /\ \A k \in DOMAIN h :
                     IF calls[c].heOk
                     THEN h[k].he = expected[k] /\ "en" \notin DOMAIN h[k]
                     ELSE /\ h[k].he = EmptyStr
                          /\ "en" \in DOMAIN h[k]
                          /\ h[k].en = expected[k]

\* Hebrew arrived, the translation failed, and passages were returned
C3_Witness ==
    \E c \in Slots :
        /\ calls[c].pc = "done"
        /\ calls[c].heOk /\ ~calls[c].enOk
        /\ calls[c].result.status = "ok"
        /\ calls[c].result.languagesLoaded = [he |-> TRUE, en |-> FALSE]
        /\ Len(calls[c].result.halakhot) > 1

\* C4: when both language requests of a call fail, the call fails, and the
\* step neither writes the Store nor starts a write; the failure is not
\* remembered: a later call for the same reference that finds no fresh entry
\* probes the network again and, when it is reachable, issues both requests.
C4_BothFailedWritesNothing ==
    [][\A c \in Slots :
         /\ (/\ calls[c].pc = "net"
             /\ calls'[c].pc = "done"
             /\ ~calls'[c].heOk /\ ~calls'[c].enOk)
            => /\ calls'[c].result.status = "error"
               /\ UNCHANGED <<texts, textWrites>>
         /\ (/\ calls[c].pc = "db"
             /\ calls'[c].pc # "db"
             /\ calls[c].retry
             /\ \/ texts[calls[c].ref] = NULL
                \/ now - texts[calls[c].ref].fetchedAt > TEXT_STALE_DAYS)
            => calls'[c].pc = "probe"
         /\ (/\ calls[c].pc = "probe"
             /\ calls'[c].pc # "probe"
             /\ calls[c].retry)
            => /\ calls'[c].probes = 1
               /\ online => (calls'[c].pc = "net" /\ calls'[c].requests = 2)]_vars

\* after a call for a reference failed in both languages, the next call for
\* it has its two requests in flight, and the Store holds no entry for it
C4_Witness ==
    \E c \in Slots :
        /\ calls[c].retry
        /\ calls[c].pc = "net"
        /\ calls[c].requests = 2
        /\ texts[calls[c].ref] = NULL

-----------------------------------------------------------------------------
(* Properties of fetchMultipleHalakhot (getMergedText) *)

\* the passages a settled fetchHalakhot contributes: none when it failed
PartLen(part) == IF part.status = "ok" THEN Len(part.halakhot) ELSE 0

\* the passages contributed by the first k of the settled reads
RECURSIVE SumLen(_, _)
SumLen(parts, k) ==
    IF k = 0 THEN 0 ELSE SumLen(parts, k - 1) + PartLen(parts[k])

\* the elements of a sequence
Range(seq) == {seq[j] : j \in DOMAIN seq}

\* C5: a getMergedText call on a non-empty list, of one reference or more,
\* returns normally whatever reads failed, and the number of its passages
\* is the sum over the references that were read successfully.
C5_MergeNeverFails ==
    (merge.pc = "done" /\ Len(merge.refs) >= 1)
    => /\ merge.result.status = "ok"
       /\ Len(merge.result.halakhot) = SumLen(merge.parts, Len(merge.parts))

\* C6: on a getMergedText result, languagesLoaded.he is TRUE exactly when
\* every reference was read successfully with languagesLoaded.he TRUE, and
\* the same for en; a reference whose read failed makes both FALSE.
C6_MergedFlagsAreConjunction ==
    (merge.pc = "done" /\ merge.result.status = "ok")
    => LET parts == merge.parts
           flags == merge.result.languagesLoaded
       IN  /\ flags.he = (\A k \in DOMAIN parts :
                             parts[k].status = "ok" /\ parts[k].languagesLoaded.he)
           /\ flags.en = (\A k \in DOMAIN parts :
                             parts[k].status = "ok" /\ parts[k].languagesLoaded.en)

\* of two references one failed and the other was read in both languages:
\* both merged flags are FALSE
C6_Witness ==
    /\ merge.pc = "done"
    /\ Len(merge.parts) = 2
    /\ merge.result.status = "ok"
    /\ \E k \in DOMAIN merge.parts : merge.parts[k].status = "error"
    /\ \E k \in DOMAIN merge.parts :
          /\ merge.parts[k].status = "ok"
          /\ merge.parts[k].languagesLoaded = [he |-> TRUE, en |-> TRUE]
    /\ merge.result.languagesLoaded = [he |-> FALSE, en |-> FALSE]

\* the merged passages are the passages of the references that were read,
\* in input order, renumbered by the position of their reference
MergedInOrder ==
    LET parts == merge.parts
        h == merge.result.halakhot
    IN  /\ Len(h) = SumLen(parts, Len(parts))
        /\ \A k \in DOMAIN parts : \A i \in 1..PartLen(parts[k]) :
              LET m == h[SumLen(parts, k - 1) + i]
                  o == parts[k].halakhot[i]
              IN  /\ m.he = o.he
                  /\ ("en" \in DOMAIN m) = ("en" \in DOMAIN o)
                  /\ ("en" \in DOMAIN o) => m.en = o.en
                  /\ m.chapter = k
                  /\ m.isFirstInChapter = (i = 1)

RECURSIVE BreaksFrom(_, _)
BreaksFrom(parts, k) ==
    IF k > Len(parts) THEN <<>>
    ELSE IF parts[k].status = "ok" /\ SumLen(parts, k - 1) > 0
         THEN << SumLen(parts, k - 1) >> \o BreaksFrom(parts, k + 1)
         ELSE BreaksFrom(parts, k + 1)

BreaksWellFormed(halakhot, chapterBreaks) ==
    \A j \in DOMAIN chapterBreaks :
        /\ chapterBreaks[j] >= 1
        /\ chapterBreaks[j] <= Len(halakhot) - 1
        /\ j > 1 => chapterBreaks[j - 1] < chapterBreaks[j]

\* C8: every result of fetchHalakhot and of fetchMultipleHalakhot, every
\* entry being written and every entry of the Store has chapter breaks that
\* are strictly increasing and within [1, len(passages) - 1].
C8_ChapterBreaksWellFormed ==
    /\ \A c \in Slots :
          (calls[c].pc = "done" /\ calls[c].result.status = "ok")
          => BreaksWellFormed(calls[c].result.halakhot, calls[c].result.chapterBreaks)
    /\ (merge.pc = "done" /\ merge.result.status = "ok")
       => BreaksWellFormed(merge.result.halakhot, merge.result.chapterBreaks)
    /\ \A w \in textWrites : BreaksWellFormed(w.halakhot, w.chapterBreaks)
    /\ \A r \in Refs :
          texts[r] # NULL => BreaksWellFormed(texts[r].halakhot, texts[r].chapterBreaks)

-----------------------------------------------------------------------------
(* Properties of processTextResponse *)

\* the passages of the first k chapters
RECURSIVE Total(_, _)
Total(chapters, k) ==
    IF k = 0 THEN 0 ELSE Total(chapters, k - 1) + Len(chapters[k])

\* C9: for a spanning response with chapters of sizes s1..sn the chapter
\* breaks are s1, s1+s2, ..., s1+...+s(n-1); each passage carries the
\* 1-based position of its chapter and isFirstInChapter is TRUE exactly on
\* the first passage of each chapter.
C9_SpanningBreaksAreRunningTotals ==
    LET structuralData == IF heData # NULL THEN heData ELSE enData
    IN  (processed # NULL /\ structuralData # NULL /\ structuralData.isSpanning)
        => LET chapters == structuralData.versions[1].text.val
               n == Len(chapters)
           IN  /\ Len(processed.chapterBreaks) = n - 1
               /\ \A k \in 1..(n - 1) :
                     processed.chapterBreaks[k] = Total(chapters, k)
               /\ Len(processed.halakhot) = Total(chapters, n)
               /\ \A c \in 1..n : \A i \in 1..Len(chapters[c]) :
                     LET h == processed.halakhot[Total(chapters, c - 1) + i]
                     IN  /\ h.chapter = c
                         /\ h.isFirstInChapter = (i = 1)

\* chapters of sizes 2, 1, 2 were processed: breaks 2 and 3, five passages
C9_Witness ==
    /\ processed # NULL
    /\ heData # NULL /\ heData.isSpanning
    /\ processed.chapterBreaks = <<2, 3>>
    /\ Len(processed.halakhot) = 5
    /\ processed.halakhot[3].chapter = 2
    /\ processed.halakhot[3].isFirstInChapter

-----------------------------------------------------------------------------
(* Properties of fetchCalendar (getCalendarEntry) *)

\* C10: a fetchCalendar call for the mitzvot path has returned the locally
\* resolved schedule of its date as soon as it was made, having read the
\* calendar collection never, started no write of it, made no reachability
\* probe and no network request, whether the network is reachable or not.
C10_MitzvotResolvedLocally ==
    ccall.path = "mitzvot"
    => /\ ccall.pc = "done"
       /\ ccall.result = resolveMitzvotSchedule(ccall.date)
       /\ ccall.result.status = "ok"
       /\ ccall.reads = 0
       /\ ccall.saves = 0
       /\ ccall.probes = 0
       /\ ccall.requests = 0
       /\ calWrites = {}

\* a mitzvot call has returned while the network was not reachable
C10_Witness ==
    /\ ccall.path = "mitzvot"
    /\ ccall.pc = "done"
    /\ ccall.result.status = "ok"
    /\ ccall.date = "d2"
    /\ ~online

-----------------------------------------------------------------------------
(* Properties of fetchSefariaCalendar (getCalendarEntry, remote paths) *)

\* the item of a response that carries the title of a call's path
TitledItem(call, res) ==
    FindItem(res.calendar_items, SEFARIA_CALENDAR_NAMES(call.path), 0)

\* C11: a call that reads an entry fetched within the 1-day window returns
\* it at that step without a request; a call that reads an older entry (or
\* none) goes on to the probe and, when the network is reachable, requests
\* the remote calendar; when the response holds the path's title the call
\* returns that item and starts the write of a new entry stamped now.
C11_StaleCalendarIsRefetched ==
    [][/\ (/\ ccall.pc = "db" /\ ccall'.pc # "db"
           /\ calendar[<<ccall.path, ccall.date>>] # NULL
           /\ now - calendar[<<ccall.path, ccall.date>>].fetchedAt <= CALENDAR_STALE_DAYS)
          => /\ ccall'.pc = "done"
             /\ ccall'.requests = 0
             /\ ccall'.result.status = "ok"
             /\ ccall'.result.ref = calendar[<<ccall.path, ccall.date>>].ref
             /\ ccall'.result.he = calendar[<<ccall.path, ccall.date>>].he
             /\ ccall'.result.en = calendar[<<ccall.path, ccall.date>>].en
       /\ (/\ ccall.pc = "db" /\ ccall'.pc # "db"
           /\ calendar[<<ccall.path, ccall.date>>] # NULL
           /\ now - calendar[<<ccall.path, ccall.date>>].fetchedAt > CALENDAR_STALE_DAYS)
          => ccall'.pc = "probe"
       /\ (ccall.pc = "probe" /\ ccall'.pc # "probe" /\ online)
          => (ccall'.pc = "net" /\ ccall'.requests = 1)
       /\ \A res \in CalendarResponses :
             (/\ ccall.pc = "net" /\ CalendarResponds(res)
              /\ res.ok /\ TitledItem(ccall, res) # NULL)
             => /\ ccall'.pc = "done"
                /\ ccall'.result.status = "ok"
                /\ ccall'.result.ref = TitledItem(ccall, res).ref
                /\ ccall'.result.he = TitledItem(ccall, res).displayValue.he
                /\ ccall'.result.en = TitledItem(ccall, res).displayValue.en
                /\ \E w \in calWrites' \ calWrites :
                      /\ w.path = ccall.path /\ w.date = ccall.date
                      /\ w.ref = ccall'.result.ref
                      /\ w.fetchedAt = now
                /\ calendar' = calendar]_vars

\* a stale entry was read, the remote calendar was asked and now names a
\* different reference: the call returns it and the write is in flight
C11_Witness ==
    /\ ccall.pc = "done"
    /\ ccall.hit = "stale"
    /\ ccall.requests = 1
    /\ ccall.result.status = "ok"
    /\ ccall.result.ref # ccall.cached.ref
    /\ \E w \in calWrites : w.ref = ccall.result.ref /\ w.fetchedAt = now

\* C12: a call for a remote path whose probe reports the network not
\* reachable ends at that step without a request: it returns the stale
\* entry it read if there is one and fails with the offline error
\* otherwise; the Store is not written.
C12_OfflineCalendarFallsBackToStale ==
    [][(ccall.pc = "probe" /\ ccall'.pc # "probe" /\ ~online)
       => /\ ccall'.pc = "done"
          /\ ccall'.requests = 0
          /\ IF ccall.hit = "stale"
             THEN /\ ccall'.result.status = "ok"
                  /\ ccall'.result.ref = ccall.cached.ref
                  /\ ccall'.result.he = ccall.cached.he
                  /\ ccall'.result.en = ccall.cached.en
             ELSE ccall'.result = Failure("Offline and no cached data available")
          /\ UNCHANGED <<calendar, calWrites>>]_vars

\* offline, a call has returned the stale entry of its key
C12_Witness ==
    /\ ccall.pc = "done"
    /\ ccall.hit = "stale"
    /\ ccall.probes = 1
    /\ ccall.requests = 0
    /\ ccall.result.status = "ok"
    /\ ~online

\* C13: when an ok response holds no item with the path's title the call
\* fails, also when it had read a stale entry, and neither the Store nor
\* the writes in flight change.
C13_MissingTitleIsHardFailure ==
    [][\A res \in CalendarResponses :
          (/\ ccall.pc = "net" /\ CalendarResponds(res)
           /\ res.ok /\ TitledItem(ccall, res) = NULL)
          => /\ ccall'.pc = "done"
             /\ ccall'.result.status = "error"
             /\ ccall'.saves = ccall.saves
             /\ UNCHANGED <<calendar, calWrites>>]_vars

\* a call that had read a stale entry failed on a response without the title
C13_Witness ==
    /\ ccall.pc = "done"
    /\ ccall.hit = "stale"
    /\ ccall.cached # NULL
    /\ ccall.requests = 1
    /\ ccall.result = Failure("No entry found")

-----------------------------------------------------------------------------
(* Properties of the fetcher's use of the Store and of the network *)

\* C14: the step in which a text fetch or a calendar fetch succeeds starts
\* the write-back and returns the fetched data at once, without waiting
\* for the write; the step in which a write-back fails changes neither the
\* result of any call nor the Store.
C14_WriteBackFailureNeverFailsRead ==
    [][/\ \A c \in Slots :
             (/\ calls[c].pc = "net" /\ calls'[c].pc # "net"
              /\ (calls'[c].heOk \/ calls'[c].enOk))
             => /\ calls'[c].pc = "done"
                /\ calls'[c].result.status = "ok"
                /\ \E w \in textWrites' : w.ref = calls[c].ref /\ w.fetchedAt = now
                /\ texts' = texts
       /\ \A w \in textWrites :
             SaveTextFails(w) => (calls' = calls /\ texts' = texts)
       /\ \A res \in CalendarResponses :
             (/\ ccall.pc = "net" /\ CalendarResponds(res)
              /\ res.ok /\ TitledItem(ccall, res) # NULL)
             => /\ ccall'.pc = "done"
                /\ ccall'.result.status = "ok"
                /\ \E w \in calWrites' : w.ref = ccall'.result.ref /\ w.fetchedAt = now
                /\ calendar' = calendar
       /\ \A w \in calWrites :
             SaveCalendarFails(w) => (ccall' = ccall /\ calendar' = calendar)]_vars

\* a text call holds the data it fetched although its write-back has
\* failed: nothing is in flight and the Store has no entry for the reference
C14_Witness ==
    /\ calls[1].pc = "done"
    /\ calls[1].requests = 2
    /\ calls[1].result.status = "ok"
    /\ textWrites = {}
    /\ texts[calls[1].ref] = NULL

\* C15: every operation of the fetcher that has issued a network request
\* (fetchHalakhot, fetchSefariaCalendar, prefetchText) has made a
\* reachability probe before.
C15_EveryRequestIsGated ==
    /\ \A c \in Slots : calls[c].requests > 0 => calls[c].probes > 0
    /\ ccall.requests > 0 => ccall.probes > 0
    /\ pcall.requests > 0 => pcall.probes > 0

SpecSyncCorrected == InitSyncCorrected /\ [][NextSyncDays]_vars

-----------------------------------------------------------------------------
(* Properties of background sync *)

\* the steps in which runSync() is called
RunSyncCalled ==
    TimerFires \/ TriggerSync \/ BecomesVisible \/ GoesOnline

\* C16: at most one runSync is past its guard at any time; while one is, no
\* step starts another, and a call of runSync (timer, interval, tab
\* visible, online, triggerSync) leaves the run, the fetches in progress,
\* the writes in flight and the Store as they are.
C16_OneRunAtATime ==
    [][/\ active' <= 1
       /\ syncInProgress' = (active' = 1)
       /\ syncInProgress => active' <= active
       /\ (syncInProgress /\ RunSyncCalled)
          => UNCHANGED <<run, active, syncInProgress, ccall, calls, pcall,
                         textWrites, calWrites, texts, calendar, meta, dayData>>]_vars

\* a run waits for a text while the tab is visible and the browser online:
\* only the flag keeps a trigger from starting a second run
C16_Witness ==
    /\ syncInProgress
    /\ active = 1
    /\ run.pc = "pf_text"
    /\ calls[1].pc = "net"
    /\ canSync(navOnLine, visible)

\* C17: a run starts (and with it the read of the metadata and the
\* fetches) only in a step after which the network is reachable and the
\* tab is visible.
C17_RunsOnlyWhenReachableAndVisible ==
    [][active' > active => (online' /\ visible')]_vars

\* the positions of a run inside syncPath
RefreshPcs == {"sp_read", "sp_cal"}

\* C18: runDailyPrefetch is entered at most once on any day, and a run that
\* starts on a day on which it has not been entered enters it.
C18_DailyPrefetchOncePerDay ==
    [][/\ (run'.prefetched /\ ~run.prefetched)
          => getTodayInIsrael \notin prefetchDays
       /\ (/\ run.pc = "getmeta" /\ run'.pc # "getmeta"
           /\ run.today \notin prefetchDays)
          => run'.prefetched]_vars

\* C19: within a run, fetchHalakhot of a date starts in the step in which
\* fetchCalendar of that date returned, for the reference it returned;
\* fetchHebrewDate of the date starts in the step in which that
\* fetchHalakhot returned; the next date starts only when the date before
\* is over; syncPath starts only when the prefetch was not due or after
\* its last date and setMeta, and nothing of the prefetch follows it.
C19_StepsInOrder ==
    [][/\ (calls[1].pc = "idle" /\ calls'[1].pc # "idle")
          => /\ run.pc = "pf_cal"
             /\ ccall.pc = "done"
             /\ ccall.result.status = "ok"
             /\ ccall.path = studyPath
             /\ ccall.date = run.today + run.i
             /\ calls'[1].ref = ccall.result.ref
             /\ run'.pc = "pf_text"
             /\ run'.i = run.i
       /\ (run'.pc = "pf_heb" /\ run.pc # "pf_heb")
          => /\ run.pc = "pf_text"
             /\ calls[1].pc = "done"
             /\ calls[1].result.status = "ok"
             /\ calls[1].ref = run.calData.ref
             /\ run'.i = run.i
       /\ (run'.pc = "pf_cal" /\ (run.pc # "pf_cal" \/ run'.i # run.i))
          => /\ \/ run.pc = "getmeta" /\ run'.i = 0
                \/ run.pc \in {"pf_cal", "pf_text", "pf_heb"} /\ run'.i = run.i + 1
             /\ run.pc = "pf_cal" => ccall.pc = "done"
             /\ run.pc = "pf_text" => calls[1].pc = "done"
             /\ ccall'.date = run'.today + run'.i
             /\ ccall'.path = studyPath
       /\ (run'.pc \in RefreshPcs /\ run.pc \notin RefreshPcs)
          => \/ /\ run.pc = "getmeta"
                /\ ~shouldRunDailyPrefetch(run.today, meta[PREFETCH_KEY])
             \/ /\ run.pc = "setmeta"
                /\ run.prefetched
                /\ run.i = PREFETCH_DAYS_AHEAD - 1
                /\ Len(run.attempts) = PREFETCH_DAYS_AHEAD
                /\ meta'[PREFETCH_KEY] # NULL
       /\ run.pc \in RefreshPcs => run'.pc \in RefreshPcs \cup {"idle"}
       /\ (run'.prefetched /\ ~run.prefetched) => run.pc = "getmeta"]_vars

\* a run that did the prefetch for all three dates, text and localized date
\* included, is refreshing the calendar of the last path
C19_Witness ==
    /\ run.pc = "sp_cal"
    /\ run.p = 2
    /\ run.prefetched
    /\ Cardinality(dayData) = PREFETCH_DAYS_AHEAD
    /\ meta[PREFETCH_KEY] # NULL

\* the fetchCalendar calls of a whole run that started on a day
ExpectedAttempts(prefetched, today) ==
    (IF prefetched
     THEN [i \in 1..PREFETCH_DAYS_AHEAD |-> <<"prefetch", studyPath, today + i - 1>>]
     ELSE <<>>)
    \o [k \in 1..(Len(SyncPaths) * UpcomingDays) |->
          <<"refresh", SyncPaths[((k - 1) \div UpcomingDays) + 1],
            today + ((k - 1) % UpcomingDays)>>]

\* C20: whatever fetches failed in it, a run ends only after fetchCalendar
\* was called for every date of the prefetch (when it was due) and for
\* every path and date of the refresh, in order; the one other end of a
\* run, setMeta failing, comes after every date of the prefetch.
C20_FailuresDoNotAbortTheRun ==
    [][(run.pc # "idle" /\ run'.pc = "idle")
       => IF run.pc = "setmeta"
          THEN /\ meta' = meta
               /\ run.attempts = [i \in 1..PREFETCH_DAYS_AHEAD |->
                                    <<"prefetch", studyPath, run.today + i - 1>>]
          ELSE run.attempts = ExpectedAttempts(run.prefetched, run.today)]_vars

\* a run in which a date of the prefetch failed and another succeeded has
\* called fetchCalendar for its last path and date
C20_Witness ==
    /\ run.pc = "sp_cal"
    /\ run.p = 2 /\ run.i = 2
    /\ run.failed
    /\ run.prefetched
    /\ Len(run.attempts) = PREFETCH_DAYS_AHEAD + Len(SyncPaths) * UpcomingDays
    /\ Cardinality(dayData) = 1

\* C21: when a run ends after its refresh on the day it started, while the
\* network is reachable and no write is in flight, the Store holds, for every path fetched from
\* the remote calendar and every date of the window, an entry with the
\* reference the provider has for that date now.
C21_RunRefreshesWindowFromProvider ==
    [][(/\ online /\ ticks = 0
        /\ run.pc = "sp_cal" /\ run'.pc = "idle"
        /\ calWrites' = {})
       => \A p \in Paths \ {"mitzvot"} : \A i \in 0..(UpcomingDays - 1) :
            LET entry == calendar'[<<p, run.today + i>>]
            IN  /\ entry # NULL
                /\ entry.ref = RefOfDay(run.today + i)]_vars

-----------------------------------------------------------------------------
(* Properties of migration *)

\* a run of runMigrations ends in this step
MigrationRunEnds == mig'.runs = mig.runs + 1

\* the completion flag is in the Store
FlagSet == meta[MIGRATION_KEY] = [value |-> TRUE]

LegacyEntries(days) ==
    UNION {{days[path][i] : i \in 1..Len(days[path])} : path \in DOMAIN days}

\* the references of the days map that have passage data
RefsWithTexts(days) ==
    {day.ref : day \in {e \in LegacyEntries(days) :
                            "ref" \in DOMAIN e /\ "texts" \in DOMAIN e}}

\* how often a reference occurs in a sequence
Occurrences(seq, r) == Cardinality({k \in 1..Len(seq) : seq[k] = r})

\* the loop of the run is over
LoopOver == mig.days # NULL /\ mig.pc \in {"mark", "done", "idle"}

NothingToMigrate ==
    \/ legacy = NULL
    \/ ~legacy.parse.ok
    \/ NoDays(legacy.parse.value)

-----------------------------------------------------------------------------
(* Properties of startup *)

\* a day the sweep has to keep: bookmarked, or not completed
KeptDay(key) == Bookmarked(key) \/ ~Completed(key)

StepRank(pc) ==
    CASE pc = "idle" -> 0
      [] pc = "migrate" -> 1
      [] pc = "clear" -> 2
      [] pc = "cleanup" -> 3
      [] pc = "stats" -> 4
      [] pc = "done" -> 5

\* C31: initializeOffline performs its steps at most once and in order: a
\* call made when the flag is set, also while the first call is running,
\* changes nothing; the steps never go back; the migration is run once and
\* has ended before the sweep starts, nothing is deleted before it has
\* ended, and background sync is started only when the statistics read,
\* the last step after the sweeps, has resolved
C31_StartupOnceAndInOrder ==
    [][/\ initialized => initialized'
       /\ (initialized /\ boot'.recalled /\ ~boot.recalled)
          => /\ boot' = [boot EXCEPT !.recalled = TRUE]
             /\ UNCHANGED <<mig, texts, calendar, meta, dayData>>
       /\ StepRank(boot'.pc) >= StepRank(boot.pc)
       /\ mig'.runs <= 1
       /\ (mig'.pc # "idle" /\ mig.pc = "idle") => boot.pc = "idle"
       /\ (boot'.pc = "clear" /\ boot.pc # "clear")
          => boot.pc = "migrate" /\ mig.pc = "done" /\ mig'.pc = "idle"
       /\ (calendar' # calendar \/ boot'.pc \in {"cleanup", "stats"})
          => mig.runs = 1 /\ mig.pc = "idle"
       /\ (boot'.started /\ ~boot.started)
          => boot.pc = "stats" /\ boot'.pc = "done" /\ mig.runs = 1]_vars

\* a second call was made while the first was at its second sweep
C31_Witness ==
    /\ boot.recalled
    /\ boot.pc = "cleanup"
    /\ boot.deletedKeys # {}
    /\ mig.runs = 1

\* C32: when clearStaleData, cleanupCompletedDays or getDatabaseStats
\* rejects, initializeOffline returns without starting background sync and
\* with the flag set; once it has returned nothing starts background sync
\* or repeats a step, whatever is called
C32_FailedStartupNeverStartsSync ==
    [][/\ (ClearStaleDataFails \/ CleanupCompletedDaysFails \/ GetDatabaseStatsFails)
          => /\ boot'.pc = "done"
             /\ ~boot'.started
             /\ boot'.outcome = "returned"
             /\ initialized'
       /\ boot.pc = "done"
          => /\ boot'.pc = "done"
             /\ boot'.started = boot.started
             /\ initialized /\ initialized'
             /\ UNCHANGED <<mig, texts, calendar, meta, dayData>>]_vars

\* the sweep failed; initializeOffline was called again afterwards
C32_Witness ==
    /\ boot.pc = "done"
    /\ ~boot.started
    /\ boot.recalled
    /\ initialized
    /\ boot.cleared > 0

\* C33: the run-in-progress flag is always released: a run that has
\* started ends with the flag cleared, whichever of its awaits reject, and
\* between runs the flag is clear, so that the next firing starts a run
C33_RunAlwaysEnds ==
    /\ syncInProgress ~> (~syncInProgress /\ run.pc = "idle")
    /\ [](run.pc = "idle" => ~syncInProgress)
    /\ [][(run.pc = "idle" /\ run'.pc # "idle") => syncInProgress']_vars

\* a run that failed has ended and a later firing has started a new run
C33_Witness ==
    /\ run.outcome = "returned"
    /\ run.pc = "getmeta"
    /\ syncInProgress
    /\ active = 1

\* the run is inside the loop of runDailyPrefetch
InPrefetchLoop(r) == r.pc \in {"pf_cal", "pf_text", "pf_heb"}

\* C34: the loop of the daily prefetch ends in setMeta of the day whether
\* or not dates failed; when that write lands the key holds today's date;
\* a run that finds the key holding today's date or a later one goes to
\* the path refresh, or ends when the read rejects, without prefetching;
\* a prefetch begins only when the key is unset or holds an earlier day
C34_PrefetchMarkedDespiteFailures ==
    [][/\ (InPrefetchLoop(run) /\ ~InPrefetchLoop(run'))
          => /\ run'.pc = "setmeta"
             /\ run.i = PREFETCH_DAYS_AHEAD - 1
             /\ meta' = meta
       /\ (run.pc = "setmeta" /\ run'.pc # "setmeta")
          => \/ /\ meta'[PREFETCH_KEY] = [value |-> getTodayInIsrael]
                /\ run'.pc = "sp_read"
             \/ /\ meta' = meta
                /\ run'.pc = "idle"
       /\ (run.pc = "getmeta" /\ run'.pc # "getmeta"
            /\ meta[PREFETCH_KEY] # NULL /\ meta[PREFETCH_KEY].value >= run.today)
          => /\ run'.pc = "sp_read" \/ run'.pc = "idle"
             /\ ~run'.prefetched
             /\ run'.attempts = <<>>
             /\ UNCHANGED <<meta, dayData, prefetchDays>>
       /\ (~InPrefetchLoop(run) /\ InPrefetchLoop(run'))
          => /\ run.pc = "getmeta"
             /\ meta[PREFETCH_KEY] = NULL \/ meta[PREFETCH_KEY].value < run.today]_vars

\* every date of the day's prefetch failed, the day was marked, and a later
\* run of the same day has gone to the path refresh without prefetching
C34_Witness ==
    /\ ~online
    /\ meta[PREFETCH_KEY] = [value |-> getTodayInIsrael]
    /\ prefetchDays = {getTodayInIsrael}
    /\ dayData = {}
    /\ run.pc = "sp_read"
    /\ ~run.prefetched
    /\ run.outcome = "returned"

C36_StaleTextNotReturnedOnFailure ==
    [][/\ (calls[1].pc = "net" /\ calls[1].hit = "stale"
            /\ NetworkSettles(1, FALSE, FALSE))
          => /\ calls'[1].pc = "done"
             /\ calls'[1].result = Failure("Both language fetches failed")
             /\ UNCHANGED <<texts, textWrites>>
       /\ (ccall.pc = "net" /\ ccall.cached # NULL
            /\ CalendarResponds([ok |-> FALSE, calendar_items |-> <<>>]))
          => /\ ccall'.pc = "done"
             /\ ccall'.result = CachedCalendar(ccall.cached, ccall.date)
             /\ ccall'.result.status = "ok"
             /\ UNCHANGED <<calendar, calWrites>>]_vars

\* fetchHalakhot has failed with both requests while the stale entry is in
\* the Store
C36_Witness ==
    /\ calls[1].pc = "done"
    /\ calls[1].hit = "stale"
    /\ calls[1].requests = 2
    /\ calls[1].result = Failure("Both language fetches failed")
    /\ texts[calls[1].ref] # NULL
    /\ isStale(texts[calls[1].ref].fetchedAt, TEXT_STALE_DAYS)

\* the entry was saved after one language only had loaded
PartialEntry(entry) ==
    /\ entry # NULL
    /\ "languagesLoaded" \in DOMAIN entry
    /\ entry.languagesLoaded \in {[he |-> TRUE, en |-> FALSE],
                                  [he |-> FALSE, en |-> TRUE]}

\* C37: a read of fetchHalakhot that finds an entry saved after a partial
\* success and not older than TEXT_STALE_DAYS returns that entry's
\* passages and languagesLoaded at once, without a probe and without a
\* request; only when the entry is stale does the call go on to the probe
C37_PartialEntryServedWhileFresh ==
    [][\A c \in Slots :
          (calls[c].pc = "db" /\ calls'[c].pc # "db" /\ PartialEntry(texts[calls[c].ref]))
          => LET entry == texts[calls[c].ref]
             IN  IF ~isStale(entry.fetchedAt, TEXT_STALE_DAYS)
                 THEN /\ calls'[c].pc = "done"
                      /\ calls'[c].result.status = "ok"
                      /\ calls'[c].result.languagesLoaded = entry.languagesLoaded
                      /\ calls'[c].result.halakhot = entry.halakhot
                      /\ calls'[c].probes = 0
                      /\ calls'[c].requests = 0
                      /\ UNCHANGED <<texts, textWrites>>
                 ELSE /\ calls'[c].pc = "probe"
                      /\ calls'[c].requests = 0]_vars

\* an entry with Hebrew only has been served from the Store
C37_Witness ==
    \E c \in Slots :
       /\ calls[c].pc = "done"
       /\ calls[c].hit = "fresh"
       /\ calls[c].requests = 0
       /\ texts[calls[c].ref] # NULL
       /\ PartialEntry(texts[calls[c].ref])
       /\ calls[c].result.languagesLoaded = [he |-> TRUE, en |-> FALSE]

\* the calendar read has returned its stale entry after a status not ok
C36_CalendarContrastReached ==
    /\ ccall.pc = "done"
    /\ ccall.requests > 0
    /\ ccall.cached # NULL
    /\ ccall.saves = 0
    /\ ccall.result.status = "ok"

\* C38: while the offline store is in user-offline the engine acts as it
\* does otherwise: a firing of the timer with navigator.onLine true, the
\* tab visible and no run in progress starts a run; a probe of
\* fetchHalakhot that finds the network reachable issues the two language
\* requests, one of fetchCalendar issues the calendar request; and no step
\* of the engine changes the offline store
C38_UserOfflineDoesNotGateEngine ==
    /\ []((state = "user-offline" /\ ~syncInProgress /\ navOnLine /\ visible)
             => ENABLED (TimerFires /\ syncInProgress' /\ run'.pc = "getmeta"))
    /\ [][/\ (state = "user-offline" /\ ProbeReachable(1) /\ isReachable)
             => /\ calls'[1].pc = "net"
                /\ calls'[1].requests = calls[1].requests + 2
          /\ (state = "user-offline" /\ ProbeCalendar /\ isReachable)
             => /\ ccall'.pc = "net"
                /\ ccall'.requests = ccall.requests + 1
          /\ (state' # state)
             => UNCHANGED <<run, calls, ccall, textWrites, calWrites>>]_vars

\* in user-offline a run is prefetching and its text requests are out
C38_Witness ==
    /\ state = "user-offline"
    /\ syncInProgress
    /\ run.pc = "pf_text"
    /\ calls[1].pc = "net"
    /\ calls[1].hit = "miss"
    /\ calls[1].requests = 2

\* in user-offline a caller's read of a missing text has its requests out
C38_CallerReached ==
    /\ state = "user-offline"
    /\ ~syncInProgress
    /\ calls[1].pc = "net"
    /\ calls[1].owner = "caller"
    /\ calls[1].requests = 2

\* C39: at most one prefetch started from the button is awaited at a time,
\* and the button is disabled for as long as one is awaited
C39_OnePrefetchAtATime ==
    /\ weekPrefetches <= 1
    /\ weekPrefetches > 0 => isDisabled

\* an entry of the Store is deleted in this step
DeletesEntry ==
    \/ \E k \in DOMAIN calendar : calendar[k] # NULL /\ calendar'[k] = NULL
    \/ \E r \in DOMAIN texts : texts[r] # NULL /\ texts'[r] = NULL

\* C23: entries are deleted from the Store only by the two sweeps of
\* initializeOffline; no step of a background sync run, whatever triggered
\* it, deletes a Text or Calendar entry: it adds or overwrites
C23_OnlyStartupDeletes ==
    [][DeletesEntry => /\ boot.pc \in {"clear", "cleanup"}
                       /\ boot'.pc # boot.pc
                       /\ UNCHANGED <<run, syncInProgress, active>>]_vars

\* the sweep has deleted the old day and kept yesterday's, and a sync run
\* has since written today's entry and recorded the daily prefetch
C23_Witness ==
    /\ boot.started
    /\ boot.deletedKeys # {}
    /\ run.pc = "idle"
    /\ meta[PREFETCH_KEY] # NULL
    /\ calendar[<<"rambam3", 0>>] # NULL
    /\ calendar[<<"rambam3", Yesterday>>] # NULL

\* C24: whatever the Store and the network do and whatever the legacy
\* storage holds, runMigrations, initializeOffline and runSync (and so
\* triggerSync, which awaits it) return; none of them rejects
C24_FailuresAreNotPropagated ==
    /\ mig.outcome # "threw"
    /\ boot.outcome # "threw"
    /\ run.outcome # "threw"
    /\ mig.pc = "done" => mig.outcome = "returned"
    /\ boot.pc = "done" => boot.outcome = "returned"

\* the legacy storage was not JSON and the migration failed on the Store;
\* initializeOffline went on and started background sync, and a run that
\* was due to prefetch ended on a Store failure of getMeta or setMeta
C24_Witness ==
    /\ legacy # NULL /\ ~legacy.parse.ok
    /\ mig.result = Failure("storage unavailable")
    /\ boot.started
    /\ run.pc = "idle"
    /\ run.outcome = "returned"
    /\ meta[PREFETCH_KEY] = NULL

\* the reference the overlapping calls ask for: the Store holds an entry
\* of it that is fresh until the clock advances
RaceRef == "r1"

\* the two callers
RaceSlots == {1, 2}

\* two callers of fetchHalakhot(RaceRef) that do not wait for one another
NextRace ==
    \/ \E c \in RaceSlots : StartOverlappingFetch(c, RaceRef)
    \/ \E c \in RaceSlots : GetTextFromDB(c)
    \/ \E c \in RaceSlots : ProbeReachable(c)
    \/ \E c \in RaceSlots, heOk \in BOOLEAN, enOk \in BOOLEAN : NetworkSettles(c, heOk, enOk)
    \/ \E c \in RaceSlots : ReturnFetchHalakhot(c)
    \/ \E w \in textWrites : SaveTextLands(w)
    \/ \E w \in textWrites : SaveTextFails(w)
    \/ Tick

SpecRace == Init /\ [][NextRace]_vars

\* the store as created, the hook not yet mounted
InitConnectivity ==
    /\ now = 0 /\ ticks = 0 /\ online = TRUE
    /\ remote \in RemoteChoices
    /\ TextInit
    /\ CalendarInit
    /\ ProcIdle
    /\ PrefetchIdle
    /\ SyncIdle
    /\ BootIdle

NextConnectivity ==
    \/ MountHook
    \/ UnmountHook
    \/ BrowserOnline
    \/ BrowserOffline
    \/ UserGoesOffline
    \/ UserLeavesOffline
    \/ ClockAdvances

SpecConnectivity == InitConnectivity /\ [][NextConnectivity]_vars

\* the settings page with the download button, nothing else going on
SpecButton == Init /\ [][NextButton]_vars

\* the engine next to the offline store: the user switches the mode at any
\* time, the timer of background sync fires, and between runs a caller
\* reads a text or a calendar entry; the network is reachable and answers
InitEngine ==
    /\ InitSync
    /\ online = TRUE

NextEngine ==
    \/ UserGoesOffline
    \/ UserLeavesOffline
    \/ TimerFires
    \/ BecomesVisible
    \/ BecomesHidden
    \/ SyncRunSteps
    \/ \E r \in Refs : run.pc = "idle" /\ FetcherQuiet /\ StartFetchHalakhot(r)
    \/ ReturnFetchHalakhot(1)
    \/ run.pc = "idle" /\ FetcherQuiet /\ StartFetchCalendar(0, "rambam3")
    \/ run.pc = "idle" /\ ReturnFetchCalendar

SpecEngine == InitEngine /\ [][NextEngine]_vars

-----------------------------------------------------------------------------
(* Properties of overlapping reads *)

\* the entries a single fetch of r can have put: the result of its two
\* requests, of which one at least succeeded, stamped at some time
SingleFetchEntries(r) ==
    {[StoredText(r, NetworkResult(IF ok[1] THEN ResponseOf("he", remote[r]) ELSE NULL,
                                  IF ok[2] THEN ResponseOf("en", remote[r]) ELSE NULL))
        EXCEPT !.fetchedAt = t] :
        ok \in {b \in BOOLEAN \X BOOLEAN : b[1] \/ b[2]},
        t \in {k * TickDays : k \in 0..MaxTicks}}

\* C30: overlapping calls for the same reference are not coordinated: a
\* call that found no fresh entry issues its own two requests when the
\* network is reachable, whatever the other call does, and hands its own
\* result to saveTextToDB; a put that lands replaces the entry by its own
\* value; and the Store holds for the reference no entry, the entry it had
\* at the start, or one whole entry of a single fetch
C30_OverlappingReadsRace ==
    /\ [](\A r \in Refs : \/ texts[r] = NULL
                           \/ texts[r] = LegacyText(r, LegacyShape)
                           \/ texts[r] \in SingleFetchEntries(r))
    /\ [][\A c \in RaceSlots :
            /\ (calls[c].pc = "probe" /\ calls'[c].pc # "probe" /\ online)
               => calls'[c].pc = "net" /\ calls'[c].requests = calls[c].requests + 2
            /\ (calls[c].pc = "net" /\ calls'[c].pc = "done"
                  /\ calls'[c].result.status = "ok")
               => StoredText(calls[c].ref, calls'[c].result) \in textWrites']_vars
    /\ [][\A w \in textWrites :
            (textWrites' = textWrites \ {w} /\ texts' # texts) => texts' = [texts EXCEPT ![w.ref] = w]]_vars

\* both calls found the stale entry and fetched; their results differ; the
\* put of the second call landed last and the Store holds its value
C30_Witness ==
    /\ calls[1].pc = "done" /\ calls[2].pc = "done"
    /\ calls[1].ref = RaceRef /\ calls[2].ref = RaceRef
    /\ calls[1].hit = "stale" /\ calls[2].hit = "stale"
    /\ calls[1].requests = 2 /\ calls[2].requests = 2
    /\ calls[1].result.status = "ok" /\ calls[2].result.status = "ok"
    /\ calls[1].result # calls[2].result
    /\ textWrites = {}
    /\ texts[RaceRef] = StoredText(RaceRef, calls[2].result)

-----------------------------------------------------------------------------
(* Properties of the connectivity state *)

\* C28: a browser online or offline event moves the state only between
\* online and system-offline, the state becomes or stops being
\* user-offline only in a step of the user, and while it is user-offline a
\* browser event or a mount of the status hook leaves it as it is
C28_UserOfflineOnlyByUser ==
    [][/\ (BrowserOnline \/ BrowserOffline)
          => \/ state' = state
             \/ {state, state'} = {"online", "system-offline"}
       /\ ((state = "user-offline") # (state' = "user-offline"))
          => (UserGoesOffline \/ UserLeavesOffline)
       /\ (state = "user-offline" /\ (BrowserOnline \/ BrowserOffline \/ MountHook))
          => state' = "user-offline"]_vars

\* the steps that call setSystemOffline or setUserOffline
OfflineSetterCalled ==
    \/ UserGoesOffline
    \/ mounted /\ BrowserOffline
    \/ ~navOnLine /\ (MountHook \/ UserLeavesOffline)

\* the timestamp is kept by the offline setters and never decreases
TimestampKept ==
    /\ OfflineSetterCalled => lastOnline' = lastOnline
    /\ lastOnline # NULL
       => /\ lastOnline' # NULL
          /\ lastOnline'.iso >= lastOnline.iso

\* C29 as stated: whenever the state is online the timestamp is set;
\* setSystemOffline and setUserOffline leave it unchanged, and it never
\* decreases
C29_OnlineHasTimestamp ==
    /\ [](state = "online" => lastOnline # NULL)
    /\ [][TimestampKept]_vars

\* C29, amended: the state is online without a timestamp only in the store
\* as created, before any of its setters was called; every step that makes
\* the state online records the time of the step; setSystemOffline and
\* setUserOffline leave the timestamp unchanged, and it never decreases
C29_TimestampSinceFirstSetOnline ==
    [][/\ (state' = "online" /\ lastOnline' = NULL)
          => /\ state = "online" /\ lastOnline = NULL
             /\ ~mounted /\ ~mounted'
             /\ ~UserLeavesOffline
       /\ (state # "online" /\ state' = "online") => lastOnline' = ToISOString(now)
       /\ TimestampKept]_vars

\* the state was online, and has been offline since an earlier time
C29_Witness ==
    /\ state = "system-offline"
    /\ lastOnline # NULL
    /\ lastOnline.iso < now

InitProcess ==
    /\ ProcInit
    /\ now = 0 /\ ticks = 0 /\ online = TRUE
    /\ remote = [r \in Refs |-> [type |-> "string", sizes |-> <<1>>]]
    /\ texts = [r \in Refs |-> NULL]
    /\ textWrites = {}
    /\ calls = [c \in Slots |-> IdleCall]
    /\ merge = IdleMerge
    /\ CalendarInit
    /\ PrefetchIdle
    /\ SyncIdle
    /\ BootIdle

NextProcess == Process

SpecProcess == InitProcess /\ [][NextProcess]_vars

====
